---------------------------- MODULE Spec2Model ----------------------------
(***************************************************************************)
(* Model of the Canvas-MCP layout engine (src/src/canvas_mcp/organize.py): *)
(* the flat topological placer compute_organized_layout, the hierarchy     *)
(* driver organize_canvas and the connector-aware post-pass                *)
(* _avoid_connectors.                                                      *)
(*                                                                         *)
(* Numbers.  Node sizes are the integers the sizer writes and positions    *)
(* are the integers round() returns.  The fractional values the code       *)
(* computes in between (centres, averages, bezier samples) are kept exact  *)
(* as numerator/denominator pairs, and round() is Python's                 *)
(* round-half-to-even on the exact value.                                  *)
(***************************************************************************)
EXTENDS Integers, Sequences, FiniteSets, TLC

\* --------------------------------------------------------------------------
\* Program constants (organize.py)
\* --------------------------------------------------------------------------
NODE_HORIZONTAL_SPACING == 90
NODE_VERTICAL_SPACING == 140
CONTAINER_HORIZONTAL_SPACING == 200
CONTAINER_VERTICAL_SPACING == 240
NETWORK_HORIZONTAL_SPACING == 260
NETWORK_VERTICAL_SPACING == 320
INTER_NETWORK_HORIZONTAL_SPACING == 320
INTER_NETWORK_VERTICAL_SPACING == 380
MACHINE_PADDING == 55
FACTORY_PADDING == 75
NETWORK_PADDING == 100
LABEL_HEADER == 40
GRID_COLUMNS_NODE == 4
GRID_COLUMNS_CONTAINER == 3
CONNECTOR_CLEARANCE == 20
MAX_NUDGE_ITERATIONS == 6
NODE_BBOX_MARGIN == -8
MAX_NUDGE_DISPLACEMENT == 400
BEZIER_STEPS == 24
CANVAS_START_X == 80
CANVAS_START_Y == 100

\* --------------------------------------------------------------------------
\* Exact arithmetic helpers
\* --------------------------------------------------------------------------
Abs(a) == IF a < 0 THEN -a ELSE a

Max2(a, b) == IF a >= b THEN a ELSE b

SetMax(S) == CHOOSE m \in S : \A o \in S : o <= m

SetMin(S) == CHOOSE m \in S : \A o \in S : m <= o

\* floor(n / d) for d > 0
FloorDiv(n, d) == IF n >= 0 THEN n \div d ELSE -((-n + d - 1) \div d)

\* Python round(n / d) for d > 0: nearest integer, ties to the even one
Round(n, d) ==
    LET q == FloorDiv(n, d)
        r == n - q * d
    IN  IF 2 * r < d THEN q
        ELSE IF 2 * r > d THEN q + 1
        ELSE IF q % 2 = 0 THEN q ELSE q + 1

\* a fraction n/d with d > 0
Frac(n, d) == [n |-> n, d |-> d]

FracLt(a, b) == a.n * b.d < b.n * a.d

FracEq(a, b) == a.n * b.d = b.n * a.d

Range(s) == {s[i] : i \in DOMAIN s}

RECURSIVE SeqSum(_)
SeqSum(s) == IF s = <<>> THEN 0 ELSE Head(s) + SeqSum(Tail(s))

\* the sub-sequence of s whose elements satisfy the characteristic set keep
RECURSIVE Filter(_, _)
Filter(s, keep) ==
    IF s = <<>> THEN <<>>
    ELSE IF Head(s) \in keep THEN <<Head(s)>> \o Filter(Tail(s), keep)
    ELSE Filter(Tail(s), keep)

\* --------------------------------------------------------------------------
\* compute_organized_layout
\* --------------------------------------------------------------------------
NoLevel == -1

ItemIds(items) == {items[i].id : i \in DOMAIN items}

ItemOf(items, id) == items[CHOOSE i \in DOMAIN items : items[i].id = id]

\* sorted(items, key=(x, y)): stable
LtXY(a, b) == a.x < b.x \/ (a.x = b.x /\ a.y < b.y)

\* sorted(items, key=(y, x)): stable
LtYX(a, b) == a.y < b.y \/ (a.y = b.y /\ a.x < b.x)

SortedByXY(items) ==
    LET n == Len(items)
        rank(i) == Cardinality({j \in 1..n : LtXY(items[j], items[i])
                                             \/ (~LtXY(items[i], items[j]) /\ j < i)}) + 1
    IN  [p \in 1..n |-> items[CHOOSE i \in 1..n : rank(i) = p]]

\* (variant: the list is left in the order it came in)
InListOrder(items) == items

SortedByYX(items) ==
    LET n == Len(items)
        rank(i) == Cardinality({j \in 1..n : LtYX(items[j], items[i])
                                             \/ (~LtYX(items[i], items[j]) /\ j < i)}) + 1
    IN  [p \in 1..n |-> items[CHOOSE i \in 1..n : rank(i) = p]]

\* Step 1: an edge counts only when both endpoints are items
EdgeIsKnown(edge, ids) == edge.from_id \in ids /\ edge.to_id \in ids

RECURSIVE BuildAdjacency(_, _, _)
BuildAdjacency(edges, ids, acc) ==
    IF edges = <<>> THEN acc
    ELSE LET edge == Head(edges)
             nxt == IF EdgeIsKnown(edge, ids)
                    THEN [adjacency |-> [acc.adjacency EXCEPT ![edge.from_id] = Append(@, edge.to_id)],
                          indegree |-> [acc.indegree EXCEPT ![edge.to_id] = @ + 1]]
                    ELSE acc
         IN  BuildAdjacency(Tail(edges), ids, nxt)

\* Step 2: Kahn's topological sort
\* (variant: a target is given the level of its source)
KahnCandidateSameLevel(current_level) == current_level

KahnCandidate(current_level) == current_level + 1

RECURSIVE KahnTargets(_, _, _)
KahnTargets(targets, current_level, st) ==
    IF targets = <<>> THEN st
    ELSE LET target == Head(targets)
             candidate == KahnCandidate(current_level)
             existing == st.levels[target]
             lv == IF existing = NoLevel \/ candidate > existing
                   THEN [st.levels EXCEPT ![target] = candidate]
                   ELSE st.levels
             new_degree == st.indegree[target] - 1
             q == IF new_degree = 0 THEN Append(st.queue, target) ELSE st.queue
         IN  KahnTargets(Tail(targets), current_level,
                         [queue |-> q, levels |-> lv,
                          indegree |-> [st.indegree EXCEPT ![target] = new_degree]])

RECURSIVE KahnLoop(_, _)
KahnLoop(adjacency, st) ==
    IF st.queue = <<>> THEN st
    ELSE LET current == Head(st.queue)
             current_level == IF st.levels[current] = NoLevel THEN 0 ELSE st.levels[current]
         IN  KahnLoop(adjacency,
                      KahnTargets(adjacency[current], current_level,
                                  [st EXCEPT !.queue = Tail(st.queue)]))

RECURSIVE SeedSources(_, _, _)
SeedSources(sorted_items, indegree, st) ==
    IF sorted_items = <<>> THEN st
    ELSE LET item == Head(sorted_items)
         IN  SeedSources(Tail(sorted_items), indegree,
                         IF indegree[item.id] = 0
                         THEN [st EXCEPT !.levels[item.id] = 0, !.queue = Append(@, item.id)]
                         ELSE st)

\* Step 3: unresolved (cyclic) items, in (y, x) order
RECURSIVE ResolveCycles(_, _, _)
ResolveCycles(unresolved, edges, levels) ==
    IF unresolved = <<>> THEN levels
    ELSE LET item == Head(unresolved)
             incoming_levels == {levels[edges[k].from_id] :
                                   k \in {j \in DOMAIN edges :
                                            /\ edges[j].to_id = item.id
                                            /\ edges[j].from_id \in DOMAIN levels
                                            /\ levels[edges[j].from_id] # NoLevel}}
             lvl == IF incoming_levels # {} THEN SetMax(incoming_levels) + 1 ELSE 0
         IN  ResolveCycles(Tail(unresolved), edges, [levels EXCEPT ![item.id] = lvl])

\* Step 4: compress the used level numbers to 0, 1, 2, ...
NormalizeLevels(levels) ==
    LET unique_levels == {levels[id] : id \in DOMAIN levels}
    IN  [id \in DOMAIN levels |-> Cardinality({l \in unique_levels : l < levels[id]})]

\* (variant: the grid is used whenever there are several items)
FallbackForSeveralItems(items, edges) == Len(items) > 1

\* Step 5: the grid fallback applies when the edge list is empty
GridFallbackApplies(items, edges) == Len(edges) = 0 /\ Len(items) > 1

GridLevels(items, grid_columns) ==
    LET ordered == SortedByYX(items)
    IN  [id \in ItemIds(items) |->
            ((CHOOSE idx \in DOMAIN ordered : ordered[idx].id = id) - 1) \div grid_columns]

\* Steps 1-2: adjacency and in-degrees, the sources queued, Kahn's loop
KahnLevels(items, built) ==
    KahnLoop(built.adjacency,
             SeedSources(SortedByXY(items), built.indegree,
                         [queue |-> <<>>, levels |-> [id \in ItemIds(items) |-> NoLevel],
                          indegree |-> built.indegree])).levels

\* Step 3 on the levels Kahn's loop left: the unresolved items, sorted
UnresolvedLevels(items, edges, kahn_levels) ==
    ResolveCycles(SortedByYX(Filter(items, {it \in Range(items) :
                                              kahn_levels[it.id] = NoLevel})),
                  edges, kahn_levels)

\* Steps 3-4 on the levels Kahn's loop left
ResolvedLevels(items, edges, kahn_levels) ==
    NormalizeLevels(UnresolvedLevels(items, edges, kahn_levels))

\* Steps 1-5: the level of every item
ComputeLevels(items, edges, opts) ==
    IF GridFallbackApplies(items, edges)
    THEN GridLevels(items, opts.grid_columns)
    ELSE ResolvedLevels(items, edges,
             KahnLevels(items, BuildAdjacency(edges, ItemIds(items),
                                              [adjacency |-> [id \in ItemIds(items) |-> <<>>],
                                               indegree |-> [id \in ItemIds(items) |-> 0]])))

\* Step 6, horizontal: centres of the parents that already have a position,
\* each as twice its value (2 * (pos.y + height / 2))
RECURSIVE ParentCenters(_, _, _, _)
ParentCenters(item_id, edges, items, layout) ==
    IF edges = <<>> THEN <<>>
    ELSE LET edge == Head(edges)
             rest == ParentCenters(item_id, Tail(edges), items, layout)
         IN  IF edge.to_id = item_id /\ edge.from_id \in DOMAIN layout
             THEN <<2 * layout[edge.from_id].y + ItemOf(items, edge.from_id).height>> \o rest
             ELSE rest

\* fallback_center = item.y + item.height / 2, as twice its value
FallbackCenter(item) == 2 * item.y + item.height

\* (variant: an item is centred on the first of its placed parents)
FirstParentCenter(item, edges, items, layout) ==
    IF ParentCenters(item.id, edges, items, layout) # <<>>
    THEN Frac(Head(ParentCenters(item.id, edges, items, layout)), 2)
    ELSE Frac(FallbackCenter(item), 2)

\* (variant: an item is centred on its own current centre, whatever its parents)
OwnCenter(item, edges, items, layout) == Frac(FallbackCenter(item), 2)

TargetCenter(item, edges, items, layout) ==
    LET parent_centers == ParentCenters(item.id, edges, items, layout)
    IN  IF parent_centers # <<>>
        THEN Frac(SeqSum(parent_centers), 2 * Len(parent_centers))
        ELSE Frac(FallbackCenter(item), 2)

\* sort key (target_center, fallback_center, id)
EntryLt(a, b) ==
    \/ FracLt(a.target_center, b.target_center)
    \/ /\ FracEq(a.target_center, b.target_center)
       /\ \/ a.fallback_center < b.fallback_center
          \/ (a.fallback_center = b.fallback_center /\ a.item.id < b.item.id)

SortedEntries(entries) ==
    LET n == Len(entries)
        rank(i) == Cardinality({j \in 1..n : EntryLt(entries[j], entries[i])
                                             \/ (~EntryLt(entries[i], entries[j]) /\ j < i)}) + 1
    IN  [p \in 1..n |-> entries[CHOOSE i \in 1..n : rank(i) = p]]

\* overlap prevention: the lowest top allowed below the previous item
\* (variant: the spacing is left out)
MinTopNoSpacing(previous_bottom, v_spacing) == previous_bottom

MinTop(previous_bottom, v_spacing) == previous_bottom + v_spacing

\* st = [layout, has_previous, previous_bottom]
RECURSIVE PlaceEntries(_, _, _, _)
PlaceEntries(entries, current_x, v_spacing, st) ==
    IF entries = <<>> THEN st.layout
    ELSE LET entry == Head(entries)
             item == entry.item
             desired_top == Frac(2 * entry.target_center.n - item.height * entry.target_center.d,
                                 2 * entry.target_center.d)
             min_top == MinTop(st.previous_bottom, v_spacing)
             clamped == IF st.has_previous /\ FracLt(desired_top, Frac(min_top, 1))
                        THEN Frac(min_top, 1) ELSE desired_top
             final_y == Round(clamped.n, clamped.d)
         IN  PlaceEntries(Tail(entries), current_x, v_spacing,
                          [layout |-> st.layout @@ (item.id :> [x |-> current_x, y |-> final_y]),
                           has_previous |-> TRUE,
                           previous_bottom |-> final_y + item.height])

ItemsOnLevel(items, levels, level) ==
    Filter(items, {it \in {items[i] : i \in DOMAIN items} : levels[it.id] = level})

ColumnAdvance(column_width, h_spacing) == column_width + h_spacing

RECURSIVE PlaceColumns(_, _, _, _, _, _, _)
PlaceColumns(level_set, items, edges, levels, opts, current_x, layout) ==
    IF level_set = {} THEN layout
    ELSE LET level == SetMin(level_set)
             column_items == ItemsOnLevel(items, levels, level)
             column_width == SetMax({column_items[i].width : i \in DOMAIN column_items})
             entries == [i \in DOMAIN column_items |->
                            [item |-> column_items[i],
                             target_center |-> TargetCenter(column_items[i], edges, items, layout),
                             fallback_center |-> FallbackCenter(column_items[i])]]
             placed == PlaceEntries(SortedEntries(entries), current_x, opts.vertical_spacing,
                                    [layout |-> layout, has_previous |-> FALSE,
                                     previous_bottom |-> 0])
         IN  PlaceColumns(level_set \ {level}, items, edges, levels, opts,
                          current_x + ColumnAdvance(column_width, opts.horizontal_spacing), placed)

\* Step 6, vertical: a row is packed left to right; cursor is twice cursor_x
LtXId(a, b) == a.x < b.x \/ (a.x = b.x /\ a.id < b.id)

SortedByXId(items) ==
    LET n == Len(items)
        rank(i) == Cardinality({j \in 1..n : LtXId(items[j], items[i])}) + 1
    IN  [p \in 1..n |-> items[CHOOSE i \in 1..n : rank(i) = p]]

CursorAdvance(item, h_spacing) == item.width + h_spacing

RECURSIVE PlaceRow(_, _, _, _, _)
PlaceRow(row_items, cursor, current_y, h_spacing, layout) ==
    IF row_items = <<>> THEN layout
    ELSE LET item == Head(row_items)
         IN  PlaceRow(Tail(row_items), cursor + 2 * CursorAdvance(item, h_spacing),
                      current_y, h_spacing,
                      layout @@ (item.id :> [x |-> Round(cursor, 2), y |-> current_y]))

RECURSIVE PlaceRows(_, _, _, _, _, _, _)
PlaceRows(level_set, items, levels, opts, reference_center, current_y, layout) ==
    IF level_set = {} THEN layout
    ELSE LET level == SetMin(level_set)
             row_items == SortedByXId(ItemsOnLevel(items, levels, level))
             total_width == SeqSum([i \in DOMAIN row_items |-> row_items[i].width])
                            + (Len(row_items) - 1) * opts.horizontal_spacing
             row_height == SetMax({row_items[i].height : i \in DOMAIN row_items})
             placed == PlaceRow(row_items, reference_center - total_width, current_y,
                                opts.horizontal_spacing, layout)
         IN  PlaceRows(level_set \ {level}, items, levels, opts, reference_center,
                       current_y + row_height + opts.vertical_spacing, placed)

EmptyLayout == [id \in {} |-> [x |-> 0, y |-> 0]]

\* default_start_x, default_start_y
DefaultStartX(items, opts) ==
    IF opts.start_x # 0 THEN opts.start_x ELSE SetMin({items[i].x : i \in DOMAIN items})

DefaultStartY(items, opts) ==
    IF opts.start_y # 0 THEN opts.start_y ELSE SetMin({items[i].y : i \in DOMAIN items})

\* reference_center_x = (min_x + max_x) / 2, as twice its value
ReferenceCenter(items, opts) ==
    IF opts.reference_center_x # 0 THEN 2 * opts.reference_center_x
    ELSE SetMin({items[i].x : i \in DOMAIN items})
         + SetMax({items[i].x + items[i].width : i \in DOMAIN items})

\* Step 6: the positions of the items, level by level
LayoutLevels(items, edges, opts, effective_levels) ==
    IF opts.orientation = "horizontal"
    THEN PlaceColumns({effective_levels[id] : id \in DOMAIN effective_levels}, items, edges,
                      effective_levels, opts, DefaultStartX(items, opts), EmptyLayout)
    ELSE PlaceRows({effective_levels[id] : id \in DOMAIN effective_levels}, items,
                   effective_levels, opts, ReferenceCenter(items, opts),
                   DefaultStartY(items, opts), EmptyLayout)

\* fallback: an item without a position keeps the one it came with
FillMissing(items, layout) ==
    [id \in ItemIds(items) |->
        IF id \in DOMAIN layout THEN layout[id]
        ELSE [x |-> ItemOf(items, id).x, y |-> ItemOf(items, id).y]]

compute_organized_layout(items, edges, opts) ==
    IF items = <<>> THEN EmptyLayout
    ELSE FillMissing(items, LayoutLevels(items, edges, opts, ComputeLevels(items, edges, opts)))

OrganizeOptions(orientation, h_spacing, v_spacing, start_x, start_y, grid_columns) ==
    [orientation |-> orientation, horizontal_spacing |-> h_spacing,
     vertical_spacing |-> v_spacing, start_x |-> start_x, start_y |-> start_y,
     reference_center_x |-> 0, reference_center_y |-> 0, grid_columns |-> grid_columns]

\* --------------------------------------------------------------------------
\* Data model: a canvas is a sequence of networks, a network a sequence of
\* factories, a factory a sequence of machines, a machine a sequence of node
\* ids.  A container's id is its index in its parent's list.  `nodes` maps a
\* node id to its [x, y, width, height].
\* --------------------------------------------------------------------------
RECURSIVE Flatten(_)
Flatten(ss) == IF ss = <<>> THEN <<>> ELSE Head(ss) \o Flatten(Tail(ss))

NodesOfMachine(machine) == machine

NodesOfFactory(factory) == Flatten(factory)

\* _get_all_network_nodes
NodesOfNetwork(network) ==
    Flatten([f \in DOMAIN network |-> NodesOfFactory(network[f])])

\* Canvas.all_nodes
all_nodes(networks) ==
    Flatten([n \in DOMAIN networks |-> NodesOfNetwork(networks[n])])

\* (variant: only the first of the nodes is moved)
TranslateFirstOnly(nodes, ids, dx, dy) ==
    [n \in DOMAIN nodes |->
        IF ids # {} /\ n = SetMin(ids)
        THEN [nodes[n] EXCEPT !.x = @ + dx, !.y = @ + dy] ELSE nodes[n]]

Translate(nodes, ids, dx, dy) ==
    [n \in DOMAIN nodes |->
        IF n \in ids THEN [nodes[n] EXCEPT !.x = @ + dx, !.y = @ + dy] ELSE nodes[n]]

\* --------------------------------------------------------------------------
\* compute_bounds_from_nodes; ok = FALSE stands for None
\* --------------------------------------------------------------------------
NoBounds == [ok |-> FALSE, x |-> 0, y |-> 0, width |-> 0, height |-> 0]

compute_bounds_from_nodes(node_ids, nodes) ==
    IF node_ids = <<>> THEN NoBounds
    ELSE LET S == Range(node_ids)
             w(n) == IF nodes[n].width = 0 THEN 360 ELSE nodes[n].width
             h(n) == IF nodes[n].height = 0 THEN 180 ELSE nodes[n].height
             min_x == SetMin({nodes[n].x : n \in S})
             min_y == SetMin({nodes[n].y : n \in S})
             max_x == SetMax({nodes[n].x + w(n) : n \in S})
             max_y == SetMax({nodes[n].y + h(n) : n \in S})
         IN  [ok |-> TRUE, x |-> min_x, y |-> min_y,
              width |-> Max2(1, max_x - min_x), height |-> Max2(1, max_y - min_y)]

\* --------------------------------------------------------------------------
\* _resolve_edges_for_containers; node_to_container is a function whose
\* domain is the set of nodes that have a container.  `not src_container` is
\* true when .get() found nothing and also when the id found is the empty
\* string; EmptyId stands for that id.
\* --------------------------------------------------------------------------
EmptyId == 0

RECURSIVE ResolveEdges(_, _, _, _)
ResolveEdges(connections, node_to_container, container_ids, seen) ==
    IF connections = <<>> THEN <<>>
    ELSE LET src_node == Head(connections)[1]
             dst_node == Head(connections)[2]
             known == /\ src_node \in DOMAIN node_to_container
                      /\ dst_node \in DOMAIN node_to_container
                      /\ node_to_container[src_node] # EmptyId
                      /\ node_to_container[dst_node] # EmptyId
             src_container == node_to_container[src_node]
             dst_container == node_to_container[dst_node]
             pair == <<src_container, dst_container>>
         IN  IF \/ ~known
                \/ src_container = dst_container
                \/ src_container \notin container_ids
                \/ dst_container \notin container_ids
                \/ pair \in seen
             THEN ResolveEdges(Tail(connections), node_to_container, container_ids, seen)
             ELSE <<[from_id |-> src_container, to_id |-> dst_container]>>
                  \o ResolveEdges(Tail(connections), node_to_container, container_ids,
                                  seen \cup {pair})

\* (variant: no connection is resolved to a container edge)
NoContainerEdges(connections, node_to_container, container_ids) == <<>>

_resolve_edges_for_containers(connections, node_to_container, container_ids) ==
    ResolveEdges(connections, node_to_container, container_ids, {})

\* the container (index in `children`) holding each node, given each child's nodes
NodeToContainer(children_nodes) ==
    LET all == UNION {Range(children_nodes[c]) : c \in DOMAIN children_nodes}
    IN  [n \in all |-> SetMax({c \in DOMAIN children_nodes : n \in Range(children_nodes[c])})]

\* --------------------------------------------------------------------------
\* _organize_machine
\* --------------------------------------------------------------------------
RECURSIVE EdgesWithin(_, _)
EdgesWithin(all_connections, node_ids) ==
    IF all_connections = <<>> THEN <<>>
    ELSE LET src == Head(all_connections)[1]
             dst == Head(all_connections)[2]
             rest == EdgesWithin(Tail(all_connections), node_ids)
         IN  IF src \in node_ids /\ dst \in node_ids
             THEN <<[from_id |-> src, to_id |-> dst]>> \o rest
             ELSE rest

\* the organize items of a machine's nodes
MachineItems(machine, nodes) ==
    [i \in DOMAIN machine |->
        [id |-> machine[i], x |-> nodes[machine[i]].x, y |-> nodes[machine[i]].y,
         width |-> nodes[machine[i]].width, height |-> nodes[machine[i]].height]]

\* node.x, node.y = layout[node.id] for the nodes of the machine
PlaceMachineNodes(node_ids, layout, nodes) ==
    [n \in DOMAIN nodes |->
        IF n \in node_ids
        THEN [nodes[n] EXCEPT !.x = layout[n].x, !.y = layout[n].y]
        ELSE nodes[n]]

\* the result of a pass: the nodes and the bounds of the container's nodes
WithBounds(node_list, placed) ==
    [nodes |-> placed, bounds |-> compute_bounds_from_nodes(node_list, placed)]

_organize_machine(machine, all_connections, start_x, start_y, orientation, nodes) ==
    IF machine = <<>> THEN [nodes |-> nodes, bounds |-> NoBounds]
    ELSE WithBounds(machine,
             PlaceMachineNodes(Range(machine),
                 compute_organized_layout(
                     MachineItems(machine, nodes),
                     EdgesWithin(all_connections, Range(machine)),
                     OrganizeOptions(orientation, NODE_HORIZONTAL_SPACING,
                                     NODE_VERTICAL_SPACING, start_x + MACHINE_PADDING,
                                     start_y + MACHINE_PADDING, GRID_COLUMNS_NODE)),
                 nodes))

\* --------------------------------------------------------------------------
\* Shared shape of the factory and network passes
\* --------------------------------------------------------------------------
\* the organize items of the children that have bounds, padded for the chrome
RECURSIVE ContainerItems(_, _, _, _)
ContainerItems(bounds, k, pad_w, pad_h) ==
    IF k > Len(bounds) THEN <<>>
    ELSE IF ~bounds[k].ok THEN ContainerItems(bounds, k + 1, pad_w, pad_h)
    ELSE <<[id |-> k, x |-> bounds[k].x, y |-> bounds[k].y,
            width |-> bounds[k].width + pad_w, height |-> bounds[k].height + pad_h]>>
         \o ContainerItems(bounds, k + 1, pad_w, pad_h)

\* translate the nodes of every child that has a position and bounds
RECURSIVE ApplyPositions(_, _, _, _, _, _, _)
ApplyPositions(children_nodes, k, layout, bounds, off_x, off_y, nodes) ==
    IF k > Len(children_nodes) THEN nodes
    ELSE IF k \notin DOMAIN layout \/ ~bounds[k].ok
    THEN ApplyPositions(children_nodes, k + 1, layout, bounds, off_x, off_y, nodes)
    ELSE ApplyPositions(children_nodes, k + 1, layout, bounds, off_x, off_y,
                        Translate(nodes, Range(children_nodes[k]),
                                  layout[k].x + off_x - bounds[k].x,
                                  layout[k].y + off_y - bounds[k].y))

\* (variant: the default column count whatever the edges)
DefaultGridColumns(items, container_edges) == GRID_COLUMNS_CONTAINER

\* no cross-container edge: one column (row) holding every item
EffectiveGridColumns(items, container_edges) ==
    IF container_edges = <<>> THEN Len(items) ELSE GRID_COLUMNS_CONTAINER

\* compute_organized_layout over the container items
ContainerLayout(items, container_edges, orientation, h_spacing, v_spacing, start_x, start_y) ==
    compute_organized_layout(
        items, container_edges,
        OrganizeOptions(orientation, h_spacing, v_spacing, start_x, start_y,
                        EffectiveGridColumns(items, container_edges)))

\* one child's result added to the results so far
AppendResult(st, r) == [nodes |-> r.nodes, bounds |-> Append(st.bounds, r.bounds)]

\* --------------------------------------------------------------------------
\* _organize_factory
\* --------------------------------------------------------------------------
\* Step 1: organize each machine
RECURSIVE OrganizeMachines(_, _, _, _, _)
OrganizeMachines(factory, k, all_connections, orientation, st) ==
    IF k > Len(factory) THEN st
    ELSE OrganizeMachines(factory, k + 1, all_connections, orientation,
             AppendResult(st, _organize_machine(factory[k], all_connections, 0, 0,
                                                orientation, st.nodes)))

MachineChildren(factory) == [m \in DOMAIN factory |-> NodesOfMachine(factory[m])]

\* Steps 2-4: place the machines as items and translate their nodes
PlaceMachines(factory, all_connections, start_x, start_y, orientation, step1) ==
    IF \A k \in DOMAIN step1.bounds : ~step1.bounds[k].ok
    THEN [nodes |-> step1.nodes, bounds |-> NoBounds]
    ELSE WithBounds(NodesOfFactory(factory),
             ApplyPositions(MachineChildren(factory), 1,
                 ContainerLayout(
                     ContainerItems(step1.bounds, 1, MACHINE_PADDING * 2,
                                    MACHINE_PADDING * 2 + LABEL_HEADER),
                     _resolve_edges_for_containers(
                         all_connections, NodeToContainer(MachineChildren(factory)),
                         DOMAIN factory),
                     orientation, CONTAINER_HORIZONTAL_SPACING, CONTAINER_VERTICAL_SPACING,
                     start_x + FACTORY_PADDING, start_y + FACTORY_PADDING),
                 step1.bounds, MACHINE_PADDING, MACHINE_PADDING + LABEL_HEADER, step1.nodes))

_organize_factory(factory, all_connections, start_x, start_y, orientation, nodes) ==
    IF factory = <<>> THEN [nodes |-> nodes, bounds |-> NoBounds]
    ELSE PlaceMachines(factory, all_connections, start_x, start_y, orientation,
                       OrganizeMachines(factory, 1, all_connections, orientation,
                                        [nodes |-> nodes, bounds |-> <<>>]))

\* --------------------------------------------------------------------------
\* _organize_network; raised = TRUE when the call ends in a KeyError
\* --------------------------------------------------------------------------
\* Step 1: organize each factory
RECURSIVE OrganizeFactories(_, _, _, _, _)
OrganizeFactories(network, k, all_connections, orientation, st) ==
    IF k > Len(network) THEN st
    ELSE OrganizeFactories(network, k + 1, all_connections, orientation,
             AppendResult(st, _organize_factory(network[k], all_connections, 0, 0,
                                                orientation, st.nodes)))

FactoryChildren(network) == [f \in DOMAIN network |-> NodesOfFactory(network[f])]

Returned(r) == [nodes |-> r.nodes, bounds |-> r.bounds, raised |-> FALSE]

\* the factory the single-factory branch translates: network.factories[0]
SingleFactoryIndex(network, factory_bounds) == 1

\* single factory: just offset by the network padding
OffsetSingleFactory(network, start_x, start_y, f, step1) ==
    IF ~step1.bounds[f].ok
    THEN \* factory_bounds[factory.id]: KeyError
         [nodes |-> step1.nodes, bounds |-> NoBounds, raised |-> TRUE]
    ELSE Returned(WithBounds(NodesOfNetwork(network),
             Translate(step1.nodes, Range(NodesOfFactory(network[f])),
                       start_x + NETWORK_PADDING - step1.bounds[f].x,
                       start_y + NETWORK_PADDING - step1.bounds[f].y)))

\* Steps 2-4: place the factories as items and translate their nodes
PlaceFactories(network, all_connections, start_x, start_y, orientation, step1) ==
    IF \A k \in DOMAIN step1.bounds : ~step1.bounds[k].ok
    THEN [nodes |-> step1.nodes, bounds |-> NoBounds, raised |-> FALSE]
    ELSE IF Cardinality({k \in DOMAIN step1.bounds : step1.bounds[k].ok}) = 1
    THEN OffsetSingleFactory(network, start_x, start_y,
                             SingleFactoryIndex(network, step1.bounds), step1)
    ELSE Returned(WithBounds(NodesOfNetwork(network),
             ApplyPositions(FactoryChildren(network), 1,
                 ContainerLayout(
                     ContainerItems(step1.bounds, 1, FACTORY_PADDING * 2,
                                    FACTORY_PADDING * 2 + LABEL_HEADER),
                     _resolve_edges_for_containers(
                         all_connections, NodeToContainer(FactoryChildren(network)),
                         DOMAIN network),
                     orientation, NETWORK_HORIZONTAL_SPACING, NETWORK_VERTICAL_SPACING,
                     start_x + NETWORK_PADDING, start_y + NETWORK_PADDING),
                 step1.bounds, FACTORY_PADDING, FACTORY_PADDING + LABEL_HEADER, step1.nodes)))

_organize_network(network, all_connections, start_x, start_y, orientation, nodes) ==
    IF network = <<>> THEN [nodes |-> nodes, bounds |-> NoBounds, raised |-> FALSE]
    ELSE PlaceFactories(network, all_connections, start_x, start_y, orientation,
                        OrganizeFactories(network, 1, all_connections, orientation,
                                          [nodes |-> nodes, bounds |-> <<>>]))

\* --------------------------------------------------------------------------
\* Connector sampler.  A sampled point is kept exactly: its x and y are
\* numerators over PointDen(steps) = 10 * steps^3 (anchors are half-integers,
\* the 0.4 factor of the control offset adds fifths, t = i / steps adds
\* steps^3).
\* --------------------------------------------------------------------------
PointDen(steps) == 10 * steps * steps * steps

\* the denominator of the points the avoider samples (steps = 24)
K == PointDen(BEZIER_STEPS)

\* (variant: the horizon is not consulted)
SteeperThanWide(src, dx, dy) == Abs(dy) > Abs(dx)

\* abs(dy) > horizon and abs(dy) > abs(dx), with dx, dy given as twice their value
UsesVerticalPorts(src, dx, dy) == Abs(dy) > 3 * src.height /\ Abs(dy) > Abs(dx)

\* anchors and control points, in tenths
BezierControl(src, dst) ==
    LET dx == (2 * dst.x + dst.width) - (2 * src.x + src.width)
        dy == (2 * dst.y + dst.height) - (2 * src.y + src.height)
        vertical == UsesVerticalPorts(src, dx, dy)
        sx == IF vertical THEN 5 * (2 * src.x + src.width)
              ELSE IF dx >= 0 THEN 10 * (src.x + src.width) ELSE 10 * src.x
        sy == IF vertical THEN (IF dy > 0 THEN 10 * (src.y + src.height) ELSE 10 * src.y)
              ELSE 5 * (2 * src.y + src.height)
        ex == IF vertical THEN 5 * (2 * dst.x + dst.width)
              ELSE IF dx >= 0 THEN 10 * dst.x ELSE 10 * (dst.x + dst.width)
        ey == IF vertical THEN (IF dy > 0 THEN 10 * dst.y ELSE 10 * (dst.y + dst.height))
              ELSE 5 * (2 * dst.y + dst.height)
        cp_offset == IF vertical THEN Max2((2 * Abs(ey - sy)) \div 5, 400)
                     ELSE Max2((2 * Abs(ex - sx)) \div 5, 400)
        off == IF vertical THEN (IF ey > sy THEN cp_offset ELSE -cp_offset)
               ELSE (IF ex > sx THEN cp_offset ELSE -cp_offset)
    IN  [vertical |-> vertical, sx |-> sx, sy |-> sy, ex |-> ex, ey |-> ey,
         cp1x |-> IF vertical THEN sx ELSE sx + off,
         cp1y |-> IF vertical THEN sy + off ELSE sy,
         cp2x |-> IF vertical THEN ex ELSE ex - off,
         cp2y |-> IF vertical THEN ey - off ELSE ey]

_sample_bezier_path(src, dst, steps) ==
    LET c == BezierControl(src, dst)
    IN  [k \in 1..(steps + 1) |->
            LET i == k - 1
                u == steps - i
                w0 == u * u * u
                w1 == 3 * u * u * i
                w2 == 3 * u * i * i
                w3 == i * i * i
            IN  [x |-> w0 * c.sx + w1 * c.cp1x + w2 * c.cp2x + w3 * c.ex,
                 y |-> w0 * c.sy + w1 * c.cp1y + w2 * c.cp2y + w3 * c.ey]]

\* --------------------------------------------------------------------------
\* _node_intersects_path, _compute_nudge_direction
\* --------------------------------------------------------------------------
PointInBox(pt, node, margin) ==
    /\ (node.x + margin) * K <= pt.x
    /\ pt.x <= (node.x + node.width - margin) * K
    /\ (node.y + margin) * K <= pt.y
    /\ pt.y <= (node.y + node.height - margin) * K

_node_intersects_path(node, path, margin) ==
    \E k \in DOMAIN path : PointInBox(path[k], node, margin)

\* the y of the sampled points whose x lies within the node's x-extent
InsideYs(node, path) ==
    LET inside == SelectSeq(path, LAMBDA pt : node.x * K <= pt.x
                                              /\ pt.x <= (node.x + node.width) * K)
    IN  [k \in DOMAIN inside |-> inside[k].y]

\* sum(inside_ys) / len(inside_ys) <= node.y + node.height / 2, computed on
\* the integer and fractional parts of the samples to stay within 32 bits
MeanAtMostCentre(inside_ys, node) ==
    LET whole == SeqSum([k \in DOMAIN inside_ys |-> FloorDiv(inside_ys[k], K)])
        part == SeqSum([k \in DOMAIN inside_ys |-> inside_ys[k] - FloorDiv(inside_ys[k], K) * K])
        twice == 2 * whole + (2 * part) \div K
        rest == (2 * part) % K
        bound == Len(inside_ys) * (2 * node.y + node.height)
    IN  twice < bound \/ (twice = bound /\ rest = 0)

_compute_nudge_direction(node, path) ==
    LET inside_ys == InsideYs(node, path)
    IN  IF inside_ys = <<>> THEN 1
        ELSE IF MeanAtMostCentre(inside_ys, node) THEN 1 ELSE -1

\* --------------------------------------------------------------------------
\* _avoid_connectors: the body of the loop over the nodes, for one connection.
\* st = [nodes, nudged_this_round, total_nudges, nudge_log]; shifts are
\* numerators over K.  nudge_log is a history of the nudges applied: for each
\* one the node, the path, the direction, the shift before and after the cap,
\* and the nodes and the nudged set before it and after its siblings were
\* carried.
\* --------------------------------------------------------------------------
\* the machine (its node list) that holds node n
MachineNodesOf(networks, n) ==
    LET machines == Flatten([i \in DOMAIN networks |-> Flatten(networks[i])])
        holding == {m \in DOMAIN machines : n \in Range(machines[m])}
    IN  IF holding = {} THEN <<>> ELSE machines[SetMax(holding)]

NudgeShift(node, inside_ys, direction, clearance) ==
    IF direction > 0
    THEN SetMax(Range(inside_ys)) + (clearance - node.y) * K
    ELSE SetMin(Range(inside_ys)) - (node.height + clearance + node.y) * K

ExceedsCap(y, shift, original) ==
    Abs((y - original) * K + shift) > MAX_NUDGE_DISPLACEMENT * K

\* (variant: the cap is not applied)
UncappedShift(y, shift, original) == shift

\* the shift after the cap on the total displacement from the original y
CappedShift(y, shift, original) ==
    IF ExceedsCap(y, shift, original)
    THEN IF shift > 0 THEN (MAX_NUDGE_DISPLACEMENT - Abs(y - original)) * K
         ELSE -((MAX_NUDGE_DISPLACEMENT - Abs(y - original)) * K)
    ELSE shift

\* (variant: the shift is written to x)
ApplyShiftToX(node, shift) == [node EXCEPT !.x = Round(node.x * K + shift, K)]

\* node.y = round(node.y + shift)
ApplyShift(node, shift) == [node EXCEPT !.y = Round(node.y * K + shift, K)]

\* whether a sibling lies on the side the nudged node moves to
SiblingIsCarried(direction, sibling_y, new_y, shift) ==
    \/ direction > 0 /\ sibling_y * K >= new_y * K - shift
    \/ direction < 0 /\ sibling_y * K <= new_y * K - shift

RECURSIVE CarrySiblings(_, _, _, _, _, _, _)
CarrySiblings(siblings, node_id, direction, shift, new_y, original_y, st) ==
    IF siblings = <<>> THEN st
    ELSE LET sib == Head(siblings)
             y == st.nodes[sib].y
             skip == \/ sib = node_id
                     \/ sib \in st.nudged_this_round
                     \/ ExceedsCap(y, shift, original_y[sib])
                     \/ ~SiblingIsCarried(direction, y, new_y, shift)
             nxt == IF skip THEN st
                    ELSE [st EXCEPT !.nodes[sib] = ApplyShift(@, shift),
                                    !.nudged_this_round = @ \cup {sib}]
         IN  CarrySiblings(Tail(siblings), node_id, direction, shift, new_y, original_y, nxt)

\* one node against one sampled path
AvoidNode(networks, node_id, path, clearance, original_y, st) ==
    LET node == st.nodes[node_id]
        direction == _compute_nudge_direction(node, path)
        inside_ys == InsideYs(node, path)
        shift == NudgeShift(node, inside_ys, direction, clearance)
        capped == CappedShift(node.y, shift, original_y[node_id])
        moved == ApplyShift(node, capped)
    IN  IF ~_node_intersects_path(node, path, NODE_BBOX_MARGIN) THEN st
        ELSE IF inside_ys = <<>> THEN st
        ELSE IF direction > 0 /\ shift <= 0 THEN st
        ELSE IF direction < 0 /\ shift >= 0 THEN st
        ELSE IF capped # shift /\ Abs(capped) < 5 * K THEN st
        ELSE LET carried ==
                     CarrySiblings(MachineNodesOf(networks, node_id), node_id, direction,
                                   capped, moved.y, original_y,
                                   [nodes |-> [st.nodes EXCEPT ![node_id] = moved],
                                    nudged_this_round |-> st.nudged_this_round \cup {node_id},
                                    total_nudges |-> st.total_nudges + 1,
                                    nudge_log |-> st.nudge_log])
             IN  [carried EXCEPT !.nudge_log =
                     Append(@, [node |-> node_id, path |-> path, direction |-> direction,
                                shift |-> shift, capped |-> capped,
                                before |-> st.nodes, nudged_before |-> st.nudged_this_round,
                                after |-> carried.nodes,
                                nudged_after |-> carried.nudged_this_round])]

\* (variant: the endpoints of the connection are tested like any node)
EndpointsNotSkipped(node_id, src_id, dst_id, nudged) == node_id \in nudged

\* the nodes the loop passes over: the endpoints of the connection and the
\* nodes already nudged in this iteration
NodeIsSkipped(node_id, src_id, dst_id, nudged) ==
    node_id = src_id \/ node_id = dst_id \/ node_id \in nudged

RECURSIVE AvoidNodes(_, _, _, _, _, _, _, _)
AvoidNodes(networks, node_list, src_id, dst_id, path, clearance, original_y, st) ==
    IF node_list = <<>> THEN st
    ELSE LET node_id == Head(node_list)
             nxt == IF NodeIsSkipped(node_id, src_id, dst_id, st.nudged_this_round)
                    THEN st
                    ELSE AvoidNode(networks, node_id, path, clearance, original_y, st)
         IN  AvoidNodes(networks, Tail(node_list), src_id, dst_id, path, clearance,
                        original_y, nxt)

\* the body of the loop over the connections, for one connection
AvoidConnectionStep(networks, connection, clearance, original_y, st) ==
    LET src_id == connection[1]
        dst_id == connection[2]
    IN  IF src_id \notin DOMAIN st.nodes \/ dst_id \notin DOMAIN st.nodes THEN st
        ELSE AvoidNodes(networks, all_nodes(networks), src_id, dst_id,
                        _sample_bezier_path(st.nodes[src_id], st.nodes[dst_id], BEZIER_STEPS),
                        clearance, original_y, st)

\* the number of (node, connection) pairs where the node is not an endpoint
\* and the sampled path hits it
Collisions(networks, connections, nodes) ==
    Cardinality({ <<n, k>> \in (DOMAIN nodes) \X (DOMAIN connections) :
        /\ connections[k][1] \in DOMAIN nodes
        /\ connections[k][2] \in DOMAIN nodes
        /\ n # connections[k][1]
        /\ n # connections[k][2]
        /\ _node_intersects_path(nodes[n],
               _sample_bezier_path(nodes[connections[k][1]], nodes[connections[k][2]],
                                   BEZIER_STEPS),
               NODE_BBOX_MARGIN) })

\* --------------------------------------------------------------------------
\* State
\* --------------------------------------------------------------------------
VARIABLES
    \* a call of compute_organized_layout on its own
    p_pc,               \* "idle", "input", "placed", "compared"
    p_items,            \* the item list
    p_edges,            \* the edge list
    p_opts,             \* the options
    p_layout,           \* the mapping returned for (p_items, p_edges)
    p_known,            \* the mapping returned when the edges with an endpoint
                        \* that is not an item are removed first
    \* a call of organize_canvas
    networks,           \* canvas.networks
    orientation,        \* "horizontal" or "vertical"
    connections,        \* canvas.all_connections(): list(set(...)), in the
                        \* order the set happens to iterate
    nodes,              \* node id -> [x, y, width, height]
    pc,                 \* "idle", "start", "networks", "avoid_entry", "avoid",
                        \* "done", "raised"
    net_idx,            \* Step 1: index of the next network to organize
    network_bounds,     \* Step 1: bounds of the networks organized so far
    original_y,         \* avoider: y of every node at pass start
    iteration,          \* avoider: 1-based iteration number
    conn_idx,           \* avoider: index of the next connection in this iteration
    nudged_this_round,  \* avoider: ids nudged in this iteration
    total_nudges,       \* avoider: nudges applied so far
    nudge_log,          \* avoider: the nudges of the last turn of the loop over
                        \* the connections (history)
    driver_nodes,       \* `nodes` as the hierarchy driver left them (history)
    call,               \* 1 in the first organize_canvas call, 2 in the second
    input_nodes,        \* `nodes` as the canvas was handed in (history)
    first_nodes,        \* `nodes` as the first call left them (history)
    \* a call of Canvas.all_connections on its own
    ac_pc,              \* "idle", "input", "returned"
    ac_nodes,           \* all_nodes(): a list of [id, inputs, outputs]
    ac_result,          \* the list returned
    \* a call of _resolve_edges_for_containers on its own
    re_pc,              \* "idle", "input", "returned"
    re_connections,     \* the node-to-node connections
    re_map,             \* node_to_container
    re_allowed,         \* container_ids
    re_result,          \* the list of edges returned
    \* a call of _sample_bezier_path on its own
    bz_pc,              \* "idle", "input", "sampled", "avoider_sampled", "drawn"
    bz_src,             \* the source node
    bz_dst,             \* the target node
    bz_steps,           \* the argument `steps`
    bz_path,            \* the list of points returned
    bz_scale,           \* the renderer's scale, as twice its value
    bz_offset,          \* the renderer's canvas offset <<ox, oy>>
    bz_drawn,           \* the ports, anchors and control points the renderer drew with
    \* calls of CanvasRenderer.auto_size_nodes on their own
    sz_pc,              \* "idle", "input", "sized", "resized"
    sz_nodes,           \* canvas.all_nodes(): a list of nodes
    sz_metrics,         \* the font-metric oracle's answers for each node's texts
    sz_given,           \* (width, height) of every node as handed in (history)
    sz_first,           \* (width, height) of every node after the first call (history)
    \* a call of _node_intersects_path on its own
    ht_pc,              \* "idle", "input", "returned"
    ht_node,            \* the node
    ht_path,            \* the sampled points, x and y as numerators over K
    ht_result,          \* the boolean returned
    \* the renderer drawing the containers of one factory
    ct_pc,              \* "idle", "input", "drawn"
    ct_factory,         \* the factory: a list of machines, each a list of nodes
    ct_scale,           \* the renderer's scale, as twice its value
    ct_offset,          \* the renderer's canvas offset <<ox, oy>>
    ct_drawn            \* the rectangles drawn, in half pixels

placer_vars == <<p_pc, p_items, p_edges, p_opts, p_layout, p_known>>

canvas_vars == <<networks, orientation, connections, nodes, pc, net_idx, network_bounds,
                 original_y, iteration, conn_idx, nudged_this_round, total_nudges, nudge_log,
                 driver_nodes, call, input_nodes, first_nodes>>

connections_vars == <<ac_pc, ac_nodes, ac_result>>

resolve_vars == <<re_pc, re_connections, re_map, re_allowed, re_result>>

sampler_vars == <<bz_pc, bz_src, bz_dst, bz_steps, bz_path, bz_scale, bz_offset, bz_drawn>>

sizer_vars == <<sz_pc, sz_nodes, sz_metrics, sz_given, sz_first>>

hit_vars == <<ht_pc, ht_node, ht_path, ht_result>>

container_vars == <<ct_pc, ct_factory, ct_scale, ct_offset, ct_drawn>>

unit_vars == <<connections_vars, resolve_vars, sampler_vars, sizer_vars, hit_vars,
               container_vars>>

vars == <<placer_vars, canvas_vars, unit_vars>>

\* --------------------------------------------------------------------------
\* Bounds of the inputs
\* --------------------------------------------------------------------------
MaxItems == 3
MaxEdges == 2
MaxConns == 3

\* id 0 is the id of no item and of no node (a dangling reference)
GhostId == 0

\* (x, y, width, height) an item arrives with
ShortItem == [x |-> 0, y |-> 0, width |-> 180, height |-> 80]

TallItem == [x |-> 0, y |-> 100, width |-> 261, height |-> 200]

\* the item lists: all short, or short and tall in turn from either one
ItemPatterns == { [i \in 1..MaxItems + 1 |-> ShortItem],
                  [i \in 1..MaxItems + 1 |-> IF i % 2 = 1 THEN ShortItem ELSE TallItem],
                  [i \in 1..MaxItems + 1 |-> IF i % 2 = 1 THEN TallItem ELSE ShortItem] }

GridColumnChoices == {2, GRID_COLUMNS_CONTAINER}

ItemLists ==
    UNION { { [i \in 1..n |-> [id |-> i, x |-> sh[i].x, y |-> sh[i].y,
                               width |-> sh[i].width, height |-> sh[i].height]] :
              sh \in ItemPatterns } : n \in 1..MaxItems }

\* edge lists over the item ids, with dangling edges from and to the first item
EdgesOver(ids) ==
    LET pairs == { [from_id |-> a, to_id |-> b] : a \in ids, b \in ids }
                 \cup { [from_id |-> SetMin(ids), to_id |-> GhostId],
                        [from_id |-> GhostId, to_id |-> SetMin(ids)] }
    IN  UNION { [1..k -> pairs] : k \in 0..MaxEdges }

KnownEdges(items, edges) ==
    Filter(edges, {e \in Range(edges) : EdgeIsKnown(e, ItemIds(items))})

\* the canvases: nodes 1..4 in one machine; in two machines of one factory;
\* in two factories of one network; three canvases with empty containers
\* (an empty factory first; empty machine, factory and network later in
\* their lists; an empty machine first); in three and in four machines of
\* one factory; a canvas of two nodes only
Shapes == {
    << << << <<1, 2, 3, 4>> >> >> >>,
    << << << <<1, 2, 3>>, <<4>> >> >> >>,
    << << << <<1, 2, 3>> >>, << <<4>> >> >> >>,
    << << <<>>, << <<1, 2, 3, 4>> >> >> >>,
    << << << <<1, 2, 3>>, <<>> >>, <<>> >>, <<>>, << << <<4>> >> >> >>,
    << << << <<>>, <<1, 2, 3, 4>> >> >> >>,
    << << << <<1>>, <<2, 3>>, <<4>> >> >> >>,
    << << << <<1>>, <<2>>, <<3>>, <<4>> >> >> >>,
    << << << <<1, 2>> >> >> >> }

NodeIds == 1..4

\* sizes the sizer can write: MIN_NODE_WIDTH wide, MIN_HEIGHT or taller
NodeWidth == 180
Heights == {80, 200}
TallNodes == {2, 3}

\* node 3 can also have an odd height, which puts its centre on a half unit
HeightsOf(n) == IF n = 3 THEN Heights \cup {81} ELSE Heights

NodeSizings ==
    { [n \in NodeIds |-> [x |-> 0, y |-> 0, width |-> NodeWidth,
                          height |-> IF n \in TallNodes THEN h[n] ELSE 80]] :
      h \in {g \in [TallNodes -> Heights \cup {81}] : \A n \in TallNodes : g[n] \in HeightsOf(n)} }

\* the connections a canvas may declare
ConnCandidates == { <<1, 2>>, <<1, 3>>, <<2, 3>>, <<2, 1>>, <<3, 2>>, <<1, GhostId>>, <<3, 4>> }

\* every order in which list(set(declared)) can come out
Orderings(declared) ==
    { f \in [1..Cardinality(declared) -> declared] :
        \A i, j \in 1..Cardinality(declared) : i # j => f[i] # f[j] }

\* an item of odd height: its centre lies on a half unit
OddItem == [x |-> 0, y |-> 50, width |-> 180, height |-> 81]

\* the diamond A -> B, A -> C, B -> D, C -> D over the items 1..4, each item
\* short, tall or odd, the four edges in any order
DiamondItemLists ==
    { [i \in 1..4 |-> [id |-> i, x |-> sh[i].x, y |-> sh[i].y,
                       width |-> sh[i].width, height |-> sh[i].height]] :
      sh \in [1..4 -> {ShortItem, TallItem, OddItem}] }

DiamondEdges == { [from_id |-> 1, to_id |-> 2], [from_id |-> 1, to_id |-> 3],
                  [from_id |-> 2, to_id |-> 4], [from_id |-> 3, to_id |-> 4] }

DiamondEdgeLists == Orderings(DiamondEdges)

\* three items of one size at places that the orders (y, x) and (x, y) rank
\* differently, two or three of them at one place included
CyclePlaces == { [x |-> 0, y |-> 100], [x |-> 50, y |-> 50], [x |-> 100, y |-> 0] }

CycleItemLists ==
    { [i \in 1..3 |-> [id |-> i, x |-> at[i].x, y |-> at[i].y,
                       width |-> ShortItem.width, height |-> ShortItem.height]] :
      at \in [1..3 -> CyclePlaces] }

\* edges that close cycles: a self-loop, a two-cycle, a three-cycle, edges
\* out of a cycle
CyclePairs == { [from_id |-> 1, to_id |-> 1], [from_id |-> 1, to_id |-> 2],
               [from_id |-> 2, to_id |-> 1], [from_id |-> 2, to_id |-> 3],
               [from_id |-> 3, to_id |-> 1], [from_id |-> 1, to_id |-> 3] }

\* three of them in any order, or a two-cycle with both members feeding the
\* third item
CycleEdgeLists ==
    [1..3 -> CyclePairs]
        \cup { << [from_id |-> 1, to_id |-> 2], [from_id |-> 2, to_id |-> 1],
                  [from_id |-> 1, to_id |-> 3], [from_id |-> 2, to_id |-> 3] >> }

\* --------------------------------------------------------------------------
\* Specification of one call of compute_organized_layout
\* --------------------------------------------------------------------------
ConnectionsIdle ==
    /\ ac_pc = "idle"
    /\ ac_nodes = <<>>
    /\ ac_result = <<>>

ResolveIdle ==
    /\ re_pc = "idle"
    /\ re_connections = <<>>
    /\ re_map = <<>>
    /\ re_allowed = {}
    /\ re_result = <<>>

SamplerIdle ==
    /\ bz_pc = "idle"
    /\ bz_src = <<>>
    /\ bz_dst = <<>>
    /\ bz_steps = 0
    /\ bz_path = <<>>
    /\ bz_scale = 0
    /\ bz_offset = <<0, 0>>
    /\ bz_drawn = <<>>

SizerIdle ==
    /\ sz_pc = "idle"
    /\ sz_nodes = <<>>
    /\ sz_metrics = <<>>
    /\ sz_given = <<>>
    /\ sz_first = <<>>

HitIdle ==
    /\ ht_pc = "idle"
    /\ ht_node = <<>>
    /\ ht_path = <<>>
    /\ ht_result = FALSE

ContainersIdle ==
    /\ ct_pc = "idle"
    /\ ct_factory = <<>>
    /\ ct_scale = 0
    /\ ct_offset = <<0, 0>>
    /\ ct_drawn = <<>>

UnitsIdle ==
    ConnectionsIdle /\ ResolveIdle /\ SamplerIdle /\ SizerIdle /\ HitIdle /\ ContainersIdle

\* every single-function call but the named one has not been started
OtherUnitsIdle(unit) ==
    /\ IF unit = "connections" THEN TRUE ELSE ConnectionsIdle
    /\ IF unit = "resolve" THEN TRUE ELSE ResolveIdle
    /\ IF unit = "sampler" THEN TRUE ELSE SamplerIdle
    /\ IF unit = "sizer" THEN TRUE ELSE SizerIdle
    /\ IF unit = "hit" THEN TRUE ELSE HitIdle
    /\ IF unit = "containers" THEN TRUE ELSE ContainersIdle

OtherUnitsUnchanged(unit) ==
    /\ IF unit = "connections" THEN TRUE ELSE UNCHANGED connections_vars
    /\ IF unit = "resolve" THEN TRUE ELSE UNCHANGED resolve_vars
    /\ IF unit = "sampler" THEN TRUE ELSE UNCHANGED sampler_vars
    /\ IF unit = "sizer" THEN TRUE ELSE UNCHANGED sizer_vars
    /\ IF unit = "hit" THEN TRUE ELSE UNCHANGED hit_vars
    /\ IF unit = "containers" THEN TRUE ELSE UNCHANGED container_vars

CanvasIdle ==
    /\ networks = <<>>
    /\ orientation = "horizontal"
    /\ connections = <<>>
    /\ nodes = <<>>
    /\ pc = "idle"
    /\ net_idx = 0
    /\ network_bounds = <<>>
    /\ original_y = <<>>
    /\ iteration = 0
    /\ conn_idx = 0
    /\ nudged_this_round = {}
    /\ total_nudges = 0
    /\ nudge_log = <<>>
    /\ driver_nodes = <<>>
    /\ call = 1
    /\ input_nodes = <<>>
    /\ first_nodes = <<>>

PlacerIdle ==
    /\ p_pc = "idle"
    /\ p_items = <<>>
    /\ p_edges = <<>>
    /\ p_opts = OrganizeOptions("horizontal", 0, 0, 0, 0, 1)
    /\ p_layout = EmptyLayout
    /\ p_known = EmptyLayout

PlacerInit ==
    /\ p_pc = "input"
    /\ \/ p_items \in ItemLists /\ p_edges \in EdgesOver(ItemIds(p_items))
       \/ p_items \in DiamondItemLists /\ p_edges \in DiamondEdgeLists
       \/ p_items \in CycleItemLists /\ p_edges \in CycleEdgeLists
    /\ \E o \in {"horizontal", "vertical"}, g \in GridColumnChoices :
          p_opts = OrganizeOptions(o, NODE_HORIZONTAL_SPACING, NODE_VERTICAL_SPACING, 0, 0, g)
    /\ p_layout = EmptyLayout
    /\ p_known = EmptyLayout
    /\ CanvasIdle
    /\ UnitsIdle

\* compute_organized_layout(items, edges, options)
Place ==
    /\ p_pc = "input"
    /\ p_layout' = compute_organized_layout(p_items, p_edges, p_opts)
    /\ p_pc' = "placed"
    /\ UNCHANGED <<p_items, p_edges, p_opts, p_known, canvas_vars, unit_vars>>

\* compute_organized_layout(items, [e for e in edges if both ends are items], options)
PlaceKnown ==
    /\ p_pc = "placed"
    /\ p_known' = compute_organized_layout(p_items, KnownEdges(p_items, p_edges), p_opts)
    /\ p_pc' = "compared"
    /\ UNCHANGED <<p_items, p_edges, p_opts, p_layout, canvas_vars, unit_vars>>

PlacerNext == Place \/ PlaceKnown

SpecPlacer == PlacerInit /\ [][PlacerNext]_vars

\* --------------------------------------------------------------------------
\* Properties of compute_organized_layout (checked under SpecPlacer)
\* --------------------------------------------------------------------------
PlacerReturned == p_pc \in {"placed", "compared"}

\* the coordinate along which the levels advance
Primary(pos) == IF p_opts.orientation = "horizontal" THEN pos.x ELSE pos.y

\* the edges of the call whose endpoints are both items
ItemEdges == {e \in Range(p_edges) : EdgeIsKnown(e, ItemIds(p_items))}

\* the ids reached from the ids of S along at most n more item edges
RECURSIVE ReachedFrom(_, _)
ReachedFrom(S, n) ==
    IF n = 0 THEN S
    ELSE ReachedFrom(S \cup {e.to_id : e \in {d \in ItemEdges : d.from_id \in S}}, n - 1)

\* some item reaches itself along item edges (a cycle or a self-loop)
HasDirectedCycle ==
    \E id \in ItemIds(p_items) :
        id \in ReachedFrom({e.to_id : e \in {d \in ItemEdges : d.from_id = id}},
                           Len(p_items))

EveryItemEdgeForward ==
    \A e \in ItemEdges : Primary(p_layout[e.to_id]) > Primary(p_layout[e.from_id])

\* C1 as stated: for every item set and edge set, cycles and self-loops
\* included, every edge (u, v) between items ends with v strictly later than
\* u on the primary axis (x when horizontal, y when vertical).
C1_EveryEdgeForward == PlacerReturned => EveryItemEdgeForward

\* C1, amended: when the edges between items contain no directed cycle (and no
\* self-loop), every edge (u, v) between items ends with v strictly later than
\* u on the primary axis (x when horizontal, y when vertical).
C1_AcyclicEdgesForward == (PlacerReturned /\ ~HasDirectedCycle) => EveryItemEdgeForward

\* a chain u -> v -> w of item edges without a cycle has been placed
C1_Witness ==
    /\ PlacerReturned
    /\ ~HasDirectedCycle
    /\ \E e, d \in ItemEdges : e.to_id = d.from_id
    /\ EveryItemEdgeForward

\* the level compute_organized_layout gives each item of the call
PlacedLevels == ComputeLevels(p_items, p_edges, p_opts)

\* the gap between a and b on the cross axis is at least the spacing of that
\* axis less one unit
CrossAxisSeparated(a, b) ==
    IF p_opts.orientation = "horizontal"
    THEN \/ p_layout[b.id].y >= p_layout[a.id].y + a.height + p_opts.vertical_spacing - 1
         \/ p_layout[a.id].y >= p_layout[b.id].y + b.height + p_opts.vertical_spacing - 1
    ELSE \/ p_layout[b.id].x >= p_layout[a.id].x + a.width + p_opts.horizontal_spacing - 1
         \/ p_layout[a.id].x >= p_layout[b.id].x + b.width + p_opts.horizontal_spacing - 1

\* C2: two distinct items placed on the same level have disjoint cross-axis
\* extents, at least vertical_spacing (horizontal orientation) or
\* horizontal_spacing (vertical orientation) apart, to within one unit.
C2_SameLevelSeparated ==
    PlacerReturned =>
        LET levels == PlacedLevels
        IN  \A i, j \in DOMAIN p_items :
                (i # j /\ levels[p_items[i].id] = levels[p_items[j].id])
                    => CrossAxisSeparated(p_items[i], p_items[j])

\* two items of one column, the lower one pushed down to exactly the spacing
C2_Witness ==
    /\ PlacerReturned
    /\ p_opts.orientation = "horizontal"
    /\ \E i, j \in DOMAIN p_items :
          /\ i # j
          /\ LET levels == PlacedLevels
             IN  levels[p_items[i].id] = levels[p_items[j].id]
          /\ p_layout[p_items[j].id].y
                = p_layout[p_items[i].id].y + p_items[i].height + p_opts.vertical_spacing

\* the call is laying out the diamond horizontally
DiamondPlaced ==
    /\ PlacerReturned
    /\ p_opts.orientation = "horizontal"
    /\ p_items \in DiamondItemLists
    /\ Range(p_edges) = DiamondEdges

\* A on level 0, B and C on level 1 in one column, D on level 2; B and C at
\* least vertical_spacing apart
DiamondLevels ==
    LET levels == PlacedLevels
    IN  /\ levels[1] = 0 /\ levels[2] = 1 /\ levels[3] = 1 /\ levels[4] = 2
        /\ p_layout[2].x = p_layout[3].x
        /\ \/ p_layout[3].y >= p_layout[2].y + p_items[2].height + p_opts.vertical_spacing
           \/ p_layout[2].y >= p_layout[3].y + p_items[3].height + p_opts.vertical_spacing

\* twice the y of the centre of item i where the layout put it
TwicePlacedCentreY(i) == 2 * p_layout[i].y + p_items[i].height

\* C16 as stated: for the diamond laid out horizontally, A is on level 0, B
\* and C share level 1 (same x) at least vertical_spacing apart, D is on level
\* 2, and y(D) is the mean of y(B) and y(C) to within a unit.
C16_DiamondMeanY ==
    DiamondPlaced =>
        /\ DiamondLevels
        /\ Abs(2 * p_layout[4].y - (p_layout[2].y + p_layout[3].y)) <= 2

\* C16, amended: the same levels and separation, and the centre of D is the
\* mean of the centres of B and C to within half a unit.
C16_DiamondMeanCentre ==
    DiamondPlaced =>
        /\ DiamondLevels
        /\ Abs(2 * TwicePlacedCentreY(4) - (TwicePlacedCentreY(2) + TwicePlacedCentreY(3))) <= 2

\* the diamond has been placed with D taller than B and C: its centre is the
\* mean of their centres, its y is not the mean of their ys
C16_Witness ==
    /\ DiamondPlaced
    /\ p_items[2].height = p_items[3].height
    /\ p_items[4].height > p_items[2].height
    /\ 2 * TwicePlacedCentreY(4) = TwicePlacedCentreY(2) + TwicePlacedCentreY(3)
    /\ 2 * p_layout[4].y # p_layout[2].y + p_layout[3].y

\* the levels Kahn's loop leaves for the call's items (NoLevel: unlevelled)
KahnLeft ==
    KahnLevels(p_items, BuildAdjacency(p_edges, ItemIds(p_items),
                                       [adjacency |-> [id \in ItemIds(p_items) |-> <<>>],
                                        indegree |-> [id \in ItemIds(p_items) |-> 0]]))

\* the places in the item list of the items left unlevelled in kahn_levels
Unlevelled(kahn_levels) == {i \in DOMAIN p_items : kahn_levels[p_items[i].id] = NoLevel}

\* ascending (y, x), the list's order among items at one place
ProcessedBefore(i, j) ==
    \/ LtYX(p_items[i], p_items[j])
    \/ ~LtYX(p_items[j], p_items[i]) /\ i < j

\* the items that have a level when the unlevelled item at place j is handled
AlreadyLevelled(j, unlevelled) ==
    { p_items[i].id : i \in { k \in DOMAIN p_items :
                                 \/ k \notin unlevelled
                                 \/ ProcessedBefore(k, j) } }

LevelledPredecessors(j, unlevelled) ==
    LET already == AlreadyLevelled(j, unlevelled)
    IN  { e.from_id : e \in { f \in Range(p_edges) :
                                f.to_id = p_items[j].id /\ f.from_id \in already } }

LeftmostPrimary == SetMin({ Primary(p_layout[id]) : id \in DOMAIN p_layout })

\* C20: for every edge set, cycles and self-loops included, the call has a
\* result, with a position for every item; an item Kahn's loop left
\* unlevelled gets max(levels of its already-levelled predecessors) + 1, or
\* 0 when it has none, the unlevelled items being handled in ascending
\* (y, x) order; in the layout such an item is on the first level when it
\* has no such predecessor and beyond each of them otherwise.
C20_CyclesLevelledInYXOrder ==
    /\ p_pc = "input" =>
          DOMAIN compute_organized_layout(p_items, p_edges, p_opts) = ItemIds(p_items)
    /\ p_pc = "placed" =>
          LET kahn_levels == KahnLeft
              unlevelled == Unlevelled(kahn_levels)
              levels == UnresolvedLevels(p_items, p_edges, kahn_levels)
              leftmost == LeftmostPrimary
          IN  /\ DOMAIN p_layout = ItemIds(p_items)
              /\ \A j \in unlevelled :
                    LET preds == LevelledPredecessors(j, unlevelled)
                        id == p_items[j].id
                    IN  /\ levels[id] = IF preds = {} THEN 0
                                        ELSE SetMax({ levels[p] : p \in preds }) + 1
                        /\ preds = {} => Primary(p_layout[id]) = leftmost
                        /\ \A p \in preds : Primary(p_layout[p]) < Primary(p_layout[id])

\* a two-cycle feeding a third item, all three unlevelled by Kahn's loop:
\* the third item comes first in (y, x) order and last in (x, y) order, so it
\* is on the first level although both its predecessors are in the cycle
C20_Witness ==
    /\ p_pc = "placed"
    /\ Len(p_items) = 3
    /\ Unlevelled(KahnLeft) = {1, 2, 3}
    /\ ProcessedBefore(3, 1) /\ ProcessedBefore(1, 2)
    /\ LtXY(p_items[1], p_items[3])
    /\ \E e \in Range(p_edges) : e.from_id = 1 /\ e.to_id = 3
    /\ LevelledPredecessors(3, {1, 2, 3}) = {}
    /\ LevelledPredecessors(2, {1, 2, 3}) = {1}
    /\ Primary(p_layout[3]) = Primary(p_layout[1])
    /\ Primary(p_layout[1]) < Primary(p_layout[2])

\* the place of the item at place i of the list in a stable sort by (y, x)
PlaceByYX(i) == Cardinality({j \in DOMAIN p_items : ProcessedBefore(j, i)}) + 1

\* the items that the levels put on level lvl
OnLevel(levels, lvl) == {i \in DOMAIN p_items : levels[p_items[i].id] = lvl}

\* the layout puts items of one level at one place along the primary axis
\* and a lower level before a higher one
LaidOutByLevel(levels) ==
    \A i, j \in DOMAIN p_items :
        /\ levels[p_items[i].id] = levels[p_items[j].id] =>
              Primary(p_layout[p_items[i].id]) = Primary(p_layout[p_items[j].id])
        /\ levels[p_items[i].id] < levels[p_items[j].id] =>
              Primary(p_layout[p_items[i].id]) < Primary(p_layout[p_items[j].id])

\* C27: with an empty edge list and more than one item, the items sorted by
\* (y, x) get level = index // grid_columns in both orientations, so each
\* level holds at most grid_columns items and the levels are filled in
\* order, and the layout follows these levels; with a non-empty edge list,
\* or exactly one item, the grid is not applied: the levels are those of the
\* graph, and are all 0 when no edge joins two items.
C27_GridFallback ==
    p_pc = "placed" =>
        LET levels == PlacedLevels
            columns == p_opts.grid_columns
        IN  /\ LaidOutByLevel(levels)
            /\ IF p_edges = <<>> /\ Len(p_items) > 1
               THEN /\ \A i \in DOMAIN p_items :
                          levels[p_items[i].id] = (PlaceByYX(i) - 1) \div columns
                    /\ \A lvl \in 0..Len(p_items) :
                          /\ Cardinality(OnLevel(levels, lvl)) <= columns
                          /\ OnLevel(levels, lvl + 1) # {} =>
                                Cardinality(OnLevel(levels, lvl)) = columns
               ELSE /\ levels = ResolvedLevels(p_items, p_edges, KahnLeft)
                    /\ ItemEdges = {} => \A i \in DOMAIN p_items : levels[p_items[i].id] = 0

\* three items without edges on a grid of two columns, laid out vertically:
\* the item first in (y, x) order is not the first of the list, and the
\* third in that order is alone on the second level
C27_Witness ==
    /\ p_pc = "placed"
    /\ p_edges = <<>>
    /\ Len(p_items) = 3
    /\ p_opts.grid_columns = 2
    /\ p_opts.orientation = "vertical"
    /\ PlaceByYX(1) = 2 /\ PlaceByYX(2) = 1 /\ PlaceByYX(3) = 3
    /\ p_layout[1].y = p_layout[2].y
    /\ p_layout[3].y > p_layout[1].y

\* C10: an edge with an endpoint that is no item is ignored: the mapping
\* returned equals the one returned with all such edges removed.
C10_DanglingEdgesIgnored == p_pc = "compared" => p_layout = p_known

\* every edge of the call is dangling and the two mappings have been computed
C10_AllDangling ==
    /\ p_pc = "compared"
    /\ p_edges # <<>>
    /\ ItemEdges = {}
    /\ Len(p_items) > 1

\* --------------------------------------------------------------------------
\* Specification of one call of organize_canvas
\* --------------------------------------------------------------------------
Init ==
    /\ PlacerIdle
    /\ UnitsIdle
    /\ networks \in Shapes
    /\ orientation \in {"horizontal", "vertical"}
    /\ \E sizing \in NodeSizings :
          nodes = [n \in Range(all_nodes(networks)) |-> sizing[n]]
    /\ \E declared \in SUBSET ConnCandidates :
          /\ Cardinality(declared) <= MaxConns
          /\ connections \in Orderings(declared)
    /\ pc = "start"
    /\ net_idx = 0
    /\ network_bounds = <<>>
    /\ original_y = [n \in DOMAIN nodes |-> 0]
    /\ iteration = 0
    /\ conn_idx = 0
    /\ nudged_this_round = {}
    /\ total_nudges = 0
    /\ nudge_log = <<>>
    /\ driver_nodes = nodes
    /\ call = 1
    /\ input_nodes = nodes
    /\ first_nodes = nodes

avoider_vars == <<original_y, iteration, conn_idx, nudged_this_round, total_nudges, nudge_log,
                  driver_nodes>>

call_vars == <<call, input_nodes, first_nodes>>

\* organize_canvas, up to Step 1
Enter ==
    /\ pc = "start"
    /\ IF all_nodes(networks) = <<>>
       THEN pc' = "done" /\ net_idx' = net_idx
       ELSE pc' = "networks" /\ net_idx' = 1
    /\ UNCHANGED <<networks, orientation, connections, nodes, network_bounds, avoider_vars,
                   placer_vars, call_vars, unit_vars>>

\* the state after _organize_network returned r (or raised)
NetworkOrganized(r) ==
    /\ nodes' = r.nodes
    /\ IF r.raised
       THEN /\ pc' = "raised"
            /\ UNCHANGED <<net_idx, network_bounds>>
       ELSE /\ pc' = pc
            /\ net_idx' = net_idx + 1
            /\ network_bounds' =
                  Append(network_bounds,
                         compute_bounds_from_nodes(NodesOfNetwork(networks[net_idx]), r.nodes))

\* organize_canvas Step 1, one turn of the loop over canvas.networks
OrganizeNetwork ==
    /\ pc = "networks"
    /\ net_idx <= Len(networks)
    /\ NetworkOrganized(_organize_network(networks[net_idx], connections, 0, 0,
                                          orientation, nodes))
    /\ UNCHANGED <<networks, orientation, connections, avoider_vars, placer_vars, call_vars, unit_vars>>

\* organize_canvas Step 2 with more than one network
NetworkChildren == [n \in DOMAIN networks |-> NodesOfNetwork(networks[n])]

PlaceNetworks(bounds, nds) ==
    ApplyPositions(NetworkChildren, 1,
        compute_organized_layout(
            ContainerItems(bounds, 1, NETWORK_PADDING * 2, NETWORK_PADDING * 2),
            _resolve_edges_for_containers(connections, NodeToContainer(NetworkChildren),
                                          DOMAIN networks),
            OrganizeOptions(orientation, INTER_NETWORK_HORIZONTAL_SPACING,
                            INTER_NETWORK_VERTICAL_SPACING, CANVAS_START_X,
                            CANVAS_START_Y, GRID_COLUMNS_CONTAINER)),
        bounds, NETWORK_PADDING, NETWORK_PADDING, nds)

\* organize_canvas Step 2: position the networks, then hand over to the avoider
PositionNetworks ==
    /\ pc = "networks"
    /\ net_idx > Len(networks)
    /\ nodes' = IF Len(networks) <= 1
                THEN IF network_bounds[1].ok
                     THEN Translate(nodes, Range(NodesOfNetwork(networks[1])),
                                    CANVAS_START_X - network_bounds[1].x,
                                    CANVAS_START_Y - network_bounds[1].y)
                     ELSE nodes
                ELSE PlaceNetworks(network_bounds, nodes)
    /\ pc' = "avoid_entry"
    /\ UNCHANGED <<networks, orientation, connections, net_idx, network_bounds, avoider_vars,
                   placer_vars, call_vars, unit_vars>>

\* _avoid_connectors, up to the first iteration
AvoidEnter ==
    /\ pc = "avoid_entry"
    /\ driver_nodes' = nodes
    /\ original_y' = [n \in DOMAIN nodes |-> nodes[n].y]
    /\ IF connections = <<>> \/ Len(all_nodes(networks)) < 3
       THEN pc' = "done" /\ UNCHANGED <<iteration, conn_idx>>
       ELSE pc' = "avoid" /\ iteration' = 1 /\ conn_idx' = 1
    /\ nudged_this_round' = {}
    /\ total_nudges' = 0
    /\ nudge_log' = <<>>
    /\ UNCHANGED <<networks, orientation, connections, nodes, net_idx, network_bounds,
                   placer_vars, call_vars, unit_vars>>

\* (variant: the nudges of the turn are not counted)
ConnectionAvoidedUncounted(r) ==
    /\ nodes' = r.nodes
    /\ nudged_this_round' = r.nudged_this_round
    /\ total_nudges' = total_nudges
    /\ nudge_log' = r.nudge_log

\* the state after the loop over the nodes left r
ConnectionAvoided(r) ==
    /\ nodes' = r.nodes
    /\ nudged_this_round' = r.nudged_this_round
    /\ total_nudges' = r.total_nudges
    /\ nudge_log' = r.nudge_log

\* _avoid_connectors, one turn of the loop over the connections
AvoidConnection ==
    /\ pc = "avoid"
    /\ conn_idx <= Len(connections)
    /\ ConnectionAvoided(
           AvoidConnectionStep(networks, connections[conn_idx], CONNECTOR_CLEARANCE,
                               original_y,
                               [nodes |-> nodes, nudged_this_round |-> nudged_this_round,
                                total_nudges |-> total_nudges, nudge_log |-> <<>>]))
    /\ conn_idx' = conn_idx + 1
    /\ UNCHANGED <<networks, orientation, connections, pc, net_idx, network_bounds,
                   original_y, iteration, driver_nodes, placer_vars, call_vars, unit_vars>>

\* _avoid_connectors, the end of one iteration: stop or go round again
AvoidEndIteration ==
    /\ pc = "avoid"
    /\ conn_idx > Len(connections)
    /\ IF nudged_this_round = {} \/ iteration = MAX_NUDGE_ITERATIONS
       THEN pc' = "done" /\ UNCHANGED <<iteration, conn_idx, nudged_this_round>>
       ELSE /\ pc' = pc
            /\ iteration' = iteration + 1
            /\ conn_idx' = 1
            /\ nudged_this_round' = {}
    /\ UNCHANGED <<networks, orientation, connections, nodes, net_idx, network_bounds,
                   original_y, total_nudges, nudge_log, driver_nodes, placer_vars, call_vars,
                   unit_vars>>

Next ==
    \/ Enter
    \/ OrganizeNetwork
    \/ PositionNetworks
    \/ AvoidEnter
    \/ AvoidConnection
    \/ AvoidEndIteration

Spec == Init /\ [][Next]_vars

\* --------------------------------------------------------------------------
\* Properties of organize_canvas (checked under Spec)
\* --------------------------------------------------------------------------
Finished == pc = "done"

InAvoider == pc \in {"avoid", "done"}

\* every machine of the canvas, as its list of node ids
AllMachines == Flatten([i \in DOMAIN networks |-> Flatten(networks[i])])

\* the open rectangles of a and b have a point in common
RectsOverlap(a, b) ==
    /\ a.x < b.x + b.width
    /\ b.x < a.x + a.width
    /\ a.y < b.y + b.height
    /\ b.y < a.y + a.height

NoSiblingNodesOverlap(nds) ==
    \A m \in DOMAIN AllMachines :
        \A a, b \in Range(AllMachines[m]) :
            a # b => ~RectsOverlap(nds[a], nds[b])

\* C3: after organize_canvas has finished, no two distinct nodes of one
\* machine have overlapping rectangles [x, x+width] x [y, y+height].
C3_NoSiblingNodesOverlap == Finished => NoSiblingNodesOverlap(nodes)

\* the avoider has moved a node and two nodes of one machine overlap
C3_OverlapAfterNudge ==
    /\ Finished
    /\ total_nudges > 0
    /\ NoSiblingNodesOverlap(driver_nodes)
    /\ ~NoSiblingNodesOverlap(nodes)

\* the bounding box of a container's nodes with the chrome around it:
\* pad on the left, right and bottom, pad + LABEL_HEADER on top
PaddedBox(node_list, nds, pad) ==
    [x |-> compute_bounds_from_nodes(node_list, nds).x - pad,
     y |-> compute_bounds_from_nodes(node_list, nds).y - pad - LABEL_HEADER,
     width |-> compute_bounds_from_nodes(node_list, nds).width + 2 * pad,
     height |-> compute_bounds_from_nodes(node_list, nds).height + 2 * pad + LABEL_HEADER]

NoSiblingContainersOverlap(nds) ==
    /\ \A n \in DOMAIN networks : \A f \in DOMAIN networks[n] :
          \A a, b \in DOMAIN networks[n][f] :
              (a # b /\ networks[n][f][a] # <<>> /\ networks[n][f][b] # <<>>)
                  => ~RectsOverlap(PaddedBox(networks[n][f][a], nds, MACHINE_PADDING),
                                   PaddedBox(networks[n][f][b], nds, MACHINE_PADDING))
    /\ \A n \in DOMAIN networks :
          \A a, b \in DOMAIN networks[n] :
              (a # b /\ NodesOfFactory(networks[n][a]) # <<>>
                     /\ NodesOfFactory(networks[n][b]) # <<>>)
                  => ~RectsOverlap(PaddedBox(NodesOfFactory(networks[n][a]), nds,
                                             FACTORY_PADDING),
                                   PaddedBox(NodesOfFactory(networks[n][b]), nds,
                                             FACTORY_PADDING))

\* C4: after organize_canvas has finished, the padded boxes of any two
\* non-empty machines of one factory are disjoint, and so are the padded boxes
\* of any two non-empty factories of one network.
C4_NoSiblingContainersOverlap == Finished => NoSiblingContainersOverlap(nodes)

\* the driver left the containers apart and the avoider pushed two together
C4_OverlapAfterNudge ==
    /\ Finished
    /\ total_nudges > 0
    /\ NoSiblingContainersOverlap(driver_nodes)
    /\ ~NoSiblingContainersOverlap(nodes)

\* C5: in every state during and after _avoid_connectors, every node is at
\* most MAX_NUDGE_DISPLACEMENT (400) from the y it had when the pass started.
C5_DisplacementCapped ==
    InAvoider =>
        \A n \in DOMAIN nodes : Abs(nodes[n].y - original_y[n]) <= MAX_NUDGE_DISPLACEMENT

\* a node was nudged in more than one iteration and stands at exactly the cap
C5_Witness ==
    /\ Finished
    /\ iteration > 1
    /\ \E n \in DOMAIN nodes : Abs(nodes[n].y - original_y[n]) = MAX_NUDGE_DISPLACEMENT

\* C6: _avoid_connectors leaves the x, width and height of every node as
\* they were when the pass started; only y may change.
C6_OnlyYChanges ==
    InAvoider =>
        \A n \in DOMAIN nodes :
            /\ nodes[n].x = driver_nodes[n].x
            /\ nodes[n].width = driver_nodes[n].width
            /\ nodes[n].height = driver_nodes[n].height

\* the pass has ended after moving some node
C6_Witness ==
    /\ Finished
    /\ total_nudges > 0
    /\ \E n \in DOMAIN nodes : nodes[n].y # driver_nodes[n].y

\* C7: the number of (node, connection) collisions after _avoid_connectors
\* is no greater than it was before the pass.
C7_CollisionsNotIncreased ==
    Finished =>
        Collisions(networks, connections, nodes)
            <= Collisions(networks, connections, driver_nodes)

\* the pass has moved a node and left more collisions than it found
C7_MoreCollisions ==
    /\ Finished
    /\ total_nudges > 0
    /\ Collisions(networks, connections, nodes)
          > Collisions(networks, connections, driver_nodes)

\* C9: organize_canvas never raises because of an empty container.
C9_NeverRaises == pc # "raised"

\* the network whose first factory is empty and whose other factory is not
C9_EmptyFirstFactory ==
    /\ pc = "raised"
    /\ networks = << << <<>>, << <<1, 2, 3, 4>> >> >> >>

\* the hierarchy driver has returned and the avoider has not started
DriverDone == pc = "avoid_entry"

\* the indices of the machines of a factory that have nodes
NonEmptyMachines(factory) == {k \in DOMAIN factory : factory[k] # <<>>}

\* some connection runs from a node of node list a to a node of node list b
Connects(a, b) ==
    \E k \in DOMAIN connections :
        connections[k][1] \in Range(a) /\ connections[k][2] \in Range(b)

LeftmostX(node_list, nds) == SetMin({nds[v].x : v \in Range(node_list)})

\* the padded box of a lies above that of b, at least CONTAINER_VERTICAL_SPACING away
StackedAbove(a, b, nds) ==
    PaddedBox(a, nds, MACHINE_PADDING).y + PaddedBox(a, nds, MACHINE_PADDING).height
        + CONTAINER_VERTICAL_SPACING <= PaddedBox(b, nds, MACHINE_PADDING).y

NoCrossMachineEdge(factory) ==
    \A a, b \in NonEmptyMachines(factory) : a # b => ~Connects(factory[a], factory[b])

InOneColumn(factory, nds) ==
    \A a, b \in NonEmptyMachines(factory) :
        a # b => /\ LeftmostX(factory[a], nds) = LeftmostX(factory[b], nds)
                 /\ StackedAbove(factory[a], factory[b], nds)
                       \/ StackedAbove(factory[b], factory[a], nds)

\* C13: in horizontal orientation, when no connection runs between two
\* non-empty machines of a factory, the driver stacks all of them in a single
\* column: same leftmost node x, padded boxes at least 240 apart vertically.
C13_UnconnectedMachinesOneColumn ==
    (DriverDone /\ orientation = "horizontal") =>
        \A n \in DOMAIN networks : \A f \in DOMAIN networks[n] :
            NoCrossMachineEdge(networks[n][f]) => InOneColumn(networks[n][f], nodes)

\* four unconnected machines of one factory have been placed by the driver
C13_Witness ==
    /\ DriverDone
    /\ orientation = "horizontal"
    /\ \E n \in DOMAIN networks : \E f \in DOMAIN networks[n] :
          /\ Cardinality(NonEmptyMachines(networks[n][f])) > GRID_COLUMNS_CONTAINER
          /\ NoCrossMachineEdge(networks[n][f])
          /\ InOneColumn(networks[n][f], nodes)

\* every node of b is to the right of the right edge of every node of a
MachineRightOf(b, a, nds) ==
    \A u \in Range(a), v \in Range(b) : nds[v].x > nds[u].x + nds[u].width

\* the machines of the factory reached from those of S along at most n more
\* cross-machine connections
RECURSIVE MachinesReached(_, _, _)
MachinesReached(factory, S, n) ==
    IF n = 0 THEN S
    ELSE MachinesReached(factory,
             S \cup {b \in DOMAIN factory : \E a \in S : a # b /\ Connects(factory[a], factory[b])},
             n - 1)

\* some machine of the factory reaches itself along cross-machine connections
HasMachineCycle(factory) ==
    \E a \in DOMAIN factory :
        a \in MachinesReached(factory,
                 {b \in DOMAIN factory : a # b /\ Connects(factory[a], factory[b])},
                 Len(factory))

ConnectedMachinesOrdered(factory, nds) ==
    \A a, b \in DOMAIN factory :
        (a # b /\ Connects(factory[a], factory[b]) /\ ~Connects(factory[b], factory[a]))
            => MachineRightOf(factory[b], factory[a], nds)

\* C14 as stated: in horizontal orientation, when a connection runs from
\* machine M1 to machine M2 of the same factory and none runs back from M2 to
\* M1, every node of M2 ends to the right of the right edge of every node of M1.
C14_TargetMachineToTheRight ==
    (Finished /\ orientation = "horizontal") =>
        \A n \in DOMAIN networks : \A f \in DOMAIN networks[n] :
            ConnectedMachinesOrdered(networks[n][f], nodes)

\* C14, amended: the same, for the factories whose cross-machine connections
\* contain no directed cycle of machines.
C14_AcyclicTargetMachineToTheRight ==
    (Finished /\ orientation = "horizontal") =>
        \A n \in DOMAIN networks : \A f \in DOMAIN networks[n] :
            ~HasMachineCycle(networks[n][f])
                => ConnectedMachinesOrdered(networks[n][f], nodes)

\* a machine of one node feeds a machine of two nodes, without a cycle, and
\* the two-node machine stands to its right
C14_Witness ==
    /\ Finished
    /\ orientation = "horizontal"
    /\ \E n \in DOMAIN networks : \E f \in DOMAIN networks[n] :
          /\ ~HasMachineCycle(networks[n][f])
          /\ \E a, b \in DOMAIN networks[n][f] :
                /\ a # b
                /\ Len(networks[n][f][b]) > 1
                /\ Connects(networks[n][f][a], networks[n][f][b])
                /\ MachineRightOf(networks[n][f][b], networks[n][f][a], nodes)

\* the orders in which the nodes of a machine form a linear chain: the
\* connections between its nodes are exactly those from each node to the next
ChainOrders(machine) ==
    IF Len(machine) < 2 THEN {}
    ELSE { s \in Orderings(Range(machine)) :
             {c \in Range(connections) : c[1] \in Range(machine) /\ c[2] \in Range(machine)}
                = {<<s[i], s[i + 1]>> : i \in 1..(Len(s) - 1)} }

XIncreasing(s, nds) == \A i \in 1..(Len(s) - 1) : nds[s[i]].x < nds[s[i + 1]].x

\* twice the y of the centre of a node
TwiceCentreY(node) == 2 * node.y + node.height

\* C15 as stated: for a linear chain n1 -> ... -> nk in one machine laid out
\* horizontally, x(n1) < ... < x(nk) and the y-values of the chain's nodes are
\* equal to within 1 unit, whatever the heights.
C15_ChainSameY ==
    (Finished /\ orientation = "horizontal") =>
        \A m \in DOMAIN AllMachines : \A s \in ChainOrders(AllMachines[m]) :
            /\ XIncreasing(s, nodes)
            /\ \A i, j \in DOMAIN s : Abs(nodes[s[i]].y - nodes[s[j]].y) <= 1

\* C15, amended: x(n1) < ... < x(nk), and when the chain's edges are the only
\* connections of the canvas the centre y + height/2 of each node is within
\* half a unit of the centre of the node before it.
C15_ChainSameCentre ==
    (Finished /\ orientation = "horizontal") =>
        \A m \in DOMAIN AllMachines : \A s \in ChainOrders(AllMachines[m]) :
            /\ XIncreasing(s, nodes)
            /\ (\A c \in Range(connections) :
                    c[1] \in Range(AllMachines[m]) /\ c[2] \in Range(AllMachines[m]))
                  => \A i \in 1..(Len(s) - 1) :
                        Abs(TwiceCentreY(nodes[s[i]]) - TwiceCentreY(nodes[s[i + 1]])) <= 1

\* a chain of three nodes of different heights, the only connections of the
\* canvas, has been laid out: the tops of the first two differ by more than a
\* unit and the centre of the third is half a unit off the second's
C15_Witness ==
    /\ Finished
    /\ orientation = "horizontal"
    /\ \E m \in DOMAIN AllMachines : \E s \in ChainOrders(AllMachines[m]) :
          /\ Len(s) = 3
          /\ Len(connections) = 2
          /\ Abs(nodes[s[1]].y - nodes[s[2]].y) > 1
          /\ Abs(TwiceCentreY(nodes[s[2]]) - TwiceCentreY(nodes[s[3]])) = 1
          /\ XIncreasing(s, nodes)

\* the avoider's position in its two loops is within the loops' ranges
AvoiderInRange ==
    /\ iteration <= MAX_NUDGE_ITERATIONS
    /\ pc = "avoid" => /\ iteration >= 1
                       /\ conn_idx \in 1..(Len(connections) + 1)

\* a step of the avoider finishes it or moves it on: to the next connection
\* of the pass, or, after a pass that nudged a node, to the next pass
AvoiderAdvances ==
    pc = "avoid" =>
        \/ pc' = "done"
        \/ /\ conn_idx <= Len(connections)
           /\ iteration' = iteration
           /\ conn_idx' = conn_idx + 1
        \/ /\ conn_idx = Len(connections) + 1
           /\ nudged_this_round # {}
           /\ iteration < MAX_NUDGE_ITERATIONS
           /\ iteration' = iteration + 1
           /\ conn_idx' = 1

\* the pass that nudged no node is the last one
StopsAfterQuietPass ==
    pc = "avoid" /\ conn_idx > Len(connections) /\ nudged_this_round = {} => pc' = "done"

\* the count grows by the primary nudges of the step and by nothing else
CountsPrimaryNudges ==
    pc = "avoid" =>
        total_nudges' = total_nudges + (IF conn_idx <= Len(connections)
                                        THEN Len(nudge_log') ELSE 0)

\* C22: _avoid_connectors always terminates: it makes at most
\* MAX_NUDGE_ITERATIONS passes over the connections, each step moving on to
\* the next connection or pass, and stops after the first pass in which no
\* node was nudged; the number it returns is the total number of primary
\* nudges; with no connections or fewer than 3 nodes it returns 0 and no
\* node is modified.
C22_AvoiderTerminates ==
    /\ [](/\ AvoiderInRange
          /\ pc = "avoid_entry" => total_nudges = 0
          /\ Finished /\ (connections = <<>> \/ Len(all_nodes(networks)) < 3) =>
                /\ total_nudges = 0
                /\ nodes = driver_nodes
                /\ iteration = 0)
    /\ [][AvoiderAdvances /\ StopsAfterQuietPass /\ CountsPrimaryNudges]_vars

\* the avoider finished after the last pass allowed, in which it still
\* nudged a node, and returned the nudges of all its passes
C22_Witness ==
    /\ Finished
    /\ iteration = MAX_NUDGE_ITERATIONS
    /\ nudged_this_round # {}
    /\ total_nudges >= MAX_NUDGE_ITERATIONS

\* the nodes whose y differs between two node maps
MovedBetween(before, after) == {n \in DOMAIN before : after[n].y # before[n].y}

\* a connection turn leaves every node nudged earlier in the iteration where
\* it is, moves only nodes it marks as nudged, and forgets no mark
TurnMovesOnlyFreshNodes ==
    pc = "avoid" /\ conn_idx <= Len(connections) =>
        /\ nudged_this_round \subseteq nudged_this_round'
        /\ MovedBetween(nodes, nodes') \subseteq nudged_this_round' \ nudged_this_round
        /\ \A k \in DOMAIN nudge_log' :
              LET nudge == nudge_log'[k]
              IN  /\ nudge.node \notin nudge.nudged_before
                  /\ nudge.node \in nudge.nudged_after
                  /\ nudge.nudged_before \subseteq nudge.nudged_after
                  /\ MovedBetween(nudge.before, nudge.after)
                        \subseteq nudge.nudged_after \ nudge.nudged_before
                  /\ nudge.node # connections[conn_idx][1]
                  /\ nudge.node # connections[conn_idx][2]

\* the marks are dropped only where an iteration ends, and no node moves there
MarksLastTheIteration ==
    pc = "avoid" /\ conn_idx > Len(connections) =>
        /\ nodes' = nodes
        /\ nudged_this_round' # nudged_this_round => iteration' = iteration + 1

\* C23: within one iteration of the avoider each node's y is changed at most
\* once, as the primary nudged node or as a carried sibling: a node moved in
\* the iteration is marked, a marked node is neither nudged nor carried for
\* the rest of the iteration; and the primary node of a nudge is never the
\* source or the target of the connection that caused it.
C23_NudgedOncePerIteration ==
    [][TurnMovesOnlyFreshNodes /\ MarksLastTheIteration]_vars

\* a turn in which a path crosses a node nudged earlier in the iteration,
\* which stays where it is, while another node was moved in the same pass
\* as a carried sibling of a primary nudge
C23_Witness ==
    /\ pc = "avoid"
    /\ nudge_log # <<>>
    /\ LET nudge == nudge_log[Len(nudge_log)]
       IN  /\ Cardinality(nudge.nudged_after \ nudge.nudged_before) > 1
           /\ nudge.nudged_before # {}
           /\ \E n \in nudge.nudged_before :
                 /\ n \in Range(MachineNodesOf(networks, nudge.node))
                 /\ SiblingIsCarried(nudge.direction, nudge.before[n].y,
                                     nudge.after[nudge.node].y, nudge.capped)
                 /\ nudge.after[n] = nudge.before[n]

\* the other nodes of the machine of the primary node of a logged nudge
SiblingsOf(nudge) == Range(MachineNodesOf(networks, nudge.node)) \ {nudge.node}

\* the sibling has not been nudged in the iteration and the shift keeps it
\* within MAX_NUDGE_DISPLACEMENT of its original y
MayBeCarried(nudge, sib) ==
    /\ sib \notin nudge.nudged_before
    /\ ~ExceedsCap(nudge.before[sib].y, nudge.capped, original_y[sib])

\* the sibling's y against the y the primary node had before the shift
OnNudgedSide(nudge, sib) ==
    \/ nudge.direction > 0 /\ nudge.before[sib].y >= nudge.before[nudge.node].y
    \/ nudge.direction < 0 /\ nudge.before[sib].y <= nudge.before[nudge.node].y

WasCarried(nudge, sib) ==
    /\ nudge.after[sib] = ApplyShift(nudge.before[sib], nudge.capped)
    /\ sib \in nudge.nudged_after

WasLeft(nudge, sib) ==
    /\ nudge.after[sib] = nudge.before[sib]
    /\ sib \in nudge.nudged_after <=> sib \in nudge.nudged_before

\* C24: when a node is nudged by shift s in direction d, every other node of
\* its machine that is not yet nudged in the iteration, whose y is >= (d > 0)
\* or <= (d < 0) the y the nudged node had before the shift, and that s
\* keeps within 400 of its original y, is translated by s and marked nudged
\* (so a sibling exactly level with the nudged node is carried along); all
\* other siblings are left unchanged.
C24_SiblingsOnNudgedSideCarried ==
    \A k \in DOMAIN nudge_log : \A sib \in SiblingsOf(nudge_log[k]) :
        IF MayBeCarried(nudge_log[k], sib) /\ OnNudgedSide(nudge_log[k], sib)
        THEN WasCarried(nudge_log[k], sib)
        ELSE WasLeft(nudge_log[k], sib)

\* a nudge by a shift that is no whole number left a sibling behind that was
\* exactly level with the nudged node, not yet nudged and within its cap
C24_LevelSiblingLeft ==
    \E k \in DOMAIN nudge_log : \E sib \in SiblingsOf(nudge_log[k]) :
        /\ MayBeCarried(nudge_log[k], sib)
        /\ nudge_log[k].before[sib].y = nudge_log[k].before[nudge_log[k].node].y
        /\ nudge_log[k].capped % K # 0
        /\ WasLeft(nudge_log[k], sib)

\* the y-values of the path's points within the x-extent of the nudged node
NudgeYs(nudge) == Range(InsideYs(nudge.before[nudge.node], nudge.path))

IsUncapped(nudge) == nudge.capped = nudge.shift

\* the direction is downward exactly when mean(Y) <= the node's centre y
DirectionFromMean(nudge) ==
    nudge.direction > 0 <=>
        MeanAtMostCentre(InsideYs(nudge.before[nudge.node], nudge.path),
                         nudge.before[nudge.node])

\* the edge the node was cleared to: max(Y) + 20 for its top after a
\* downward nudge, min(Y) - 20 for its bottom after an upward one, rounded
ClearedToEdge(nudge) ==
    LET node == nudge.after[nudge.node]
    IN  IF nudge.direction > 0
        THEN node.y = Round(SetMax(NudgeYs(nudge)) + CONNECTOR_CLEARANCE * K, K)
        ELSE node.y + node.height =
                Round(SetMin(NudgeYs(nudge)) - CONNECTOR_CLEARANCE * K, K)

\* the shift has the sign of the direction
ShiftAgrees(nudge) ==
    IF nudge.direction > 0 THEN nudge.shift > 0 ELSE nudge.shift < 0

\* the node is strictly lower after a downward nudge, higher after an upward
MovedStrictly(nudge) ==
    IF nudge.direction > 0
    THEN nudge.after[nudge.node].y > nudge.before[nudge.node].y
    ELSE nudge.after[nudge.node].y < nudge.before[nudge.node].y

\* C25: a nudge whose shift the displacement cap did not reduce is downward
\* exactly when mean(Y) <= the node's centre y, Y being the y-values of the
\* sampled points within the node's x-extent; it puts the node's top at
\* max(Y) + 20 (rounded) and the node strictly lower, or, upward, the node's
\* bottom at min(Y) - 20 (rounded) and the node strictly higher; and no
\* shift is applied whose sign disagrees with the direction.
C25_UncappedNudgeClears ==
    \A k \in DOMAIN nudge_log :
        /\ ShiftAgrees(nudge_log[k])
        /\ IsUncapped(nudge_log[k]) =>
              /\ DirectionFromMean(nudge_log[k])
              /\ ClearedToEdge(nudge_log[k])
              /\ MovedStrictly(nudge_log[k])

\* a nudge counted in a later pass although its shift, of less than half a
\* unit and not reduced by the cap, was rounded away: the node is where it was
C25_NudgeWithoutMove ==
    /\ iteration > 1
    /\ \E k \in DOMAIN nudge_log :
          /\ IsUncapped(nudge_log[k])
          /\ ShiftAgrees(nudge_log[k])
          /\ ClearedToEdge(nudge_log[k])
          /\ 2 * Abs(nudge_log[k].shift) < K
          /\ nudge_log[k].after = nudge_log[k].before

\* --------------------------------------------------------------------------
\* Specification of the hierarchy driver on its own: organize_canvas up to
\* the call of _avoid_connectors
\* --------------------------------------------------------------------------
DriverNext ==
    \/ Enter
    \/ OrganizeNetwork
    \/ PositionNetworks

SpecDriver == Init /\ [][DriverNext]_vars

\* --------------------------------------------------------------------------
\* Properties of the hierarchy driver (checked under SpecDriver)
\* --------------------------------------------------------------------------
\* the nodes right after the node-level placement of a machine, and right
\* after the factory pass of a factory, of the canvas handed to the call
MachineAsPlaced(machine) ==
    _organize_machine(machine, connections, 0, 0, orientation, input_nodes).nodes

FactoryAsPlaced(factory) ==
    _organize_factory(factory, connections, 0, 0, orientation, input_nodes).nodes

AllFactories == Flatten([i \in DOMAIN networks |-> networks[i]])

\* any two of the nodes listed are as far apart in `now` as in `placed`:
\* each of them is as far from the first
SameDifferences(node_list, placed, now) ==
    \A k \in 2..Len(node_list) :
        LET a == node_list[1]
            b == node_list[k]
        IN  /\ now[a].x - now[b].x = placed[a].x - placed[b].x
            /\ now[a].y - now[b].y = placed[a].y - placed[b].y

\* C26: the factory, network and canvas passes translate all nodes of one
\* machine by the same (dx, dy): at the end of the driver any two nodes of
\* one machine differ in position as they did right after the machine's
\* node-level placement; and any two nodes of one factory as they did right
\* after the factory pass.
C26_ContainersTranslatedWhole ==
    DriverDone =>
        /\ \A m \in DOMAIN AllMachines :
              SameDifferences(AllMachines[m], MachineAsPlaced(AllMachines[m]), nodes)
        /\ \A f \in DOMAIN AllFactories :
              SameDifferences(NodesOfFactory(AllFactories[f]),
                              FactoryAsPlaced(AllFactories[f]), nodes)

\* a machine of several nodes, in a factory of several machines, that each
\* of the three passes has moved
C26_Witness ==
    /\ DriverDone
    /\ \E f \in DOMAIN AllFactories : \E m \in DOMAIN AllFactories[f] :
          LET machine == AllFactories[f][m]
              factory == AllFactories[f]
          IN  /\ Len(machine) > 1
              /\ Len(NodesOfFactory(factory)) > Len(machine)
              /\ \A n \in Range(machine) :
                    /\ FactoryAsPlaced(factory)[n] # MachineAsPlaced(machine)[n]
                    /\ nodes[n] # FactoryAsPlaced(factory)[n]
              /\ \E a \in Range(machine) : \E b \in Range(machine) :
                    nodes[a].x # nodes[b].x /\ nodes[a].y # nodes[b].y

\* the top-left corner of the bounding box of all nodes
NodesTopLeft ==
    [x |-> SetMin({nodes[n].x : n \in DOMAIN nodes}),
     y |-> SetMin({nodes[n].y : n \in DOMAIN nodes})]

\* C28: at the end of the hierarchy driver, before the avoider, no node has
\* x < 80 or y < 100, in both orientations and for any number of networks;
\* with a single network the top-left corner of the bounding box of the
\* nodes is exactly (80, 100).
C28_AnchoredAtCanvasStart ==
    DriverDone =>
        /\ \A n \in DOMAIN nodes : nodes[n].x >= CANVAS_START_X /\ nodes[n].y >= CANVAS_START_Y
        /\ Len(networks) = 1 =>
              NodesTopLeft = [x |-> CANVAS_START_X, y |-> CANVAS_START_Y]

\* several networks laid out vertically: the driver has left a node to the
\* left of the canvas start, and even of the canvas origin
C28_NodeLeftOfStart ==
    /\ DriverDone
    /\ Len(networks) > 1
    /\ orientation = "vertical"
    /\ \E n \in DOMAIN nodes : nodes[n].x < 0
    /\ \A n \in DOMAIN nodes : nodes[n].y >= CANVAS_START_Y

\* --------------------------------------------------------------------------
\* Specification of two calls of organize_canvas on equal copies of a canvas
\* --------------------------------------------------------------------------
\* the second call: the copy holds the nodes as they were handed in, and its
\* all_connections() returns the same set of connections in whatever order
\* list(set(...)) iterates it in that process
SecondCall ==
    /\ pc = "done"
    /\ call = 1
    /\ call' = 2
    /\ first_nodes' = nodes
    /\ nodes' = input_nodes
    /\ connections' \in Orderings(Range(connections))
    /\ pc' = "start"
    /\ net_idx' = 0
    /\ network_bounds' = <<>>
    /\ original_y' = [n \in DOMAIN nodes |-> 0]
    /\ iteration' = 0
    /\ conn_idx' = 0
    /\ nudged_this_round' = {}
    /\ total_nudges' = 0
    /\ nudge_log' = <<>>
    /\ driver_nodes' = input_nodes
    /\ UNCHANGED <<networks, orientation, input_nodes, placer_vars, unit_vars>>

NextPair ==
    \/ Enter
    \/ OrganizeNetwork
    \/ PositionNetworks
    \/ AvoidEnter
    \/ AvoidConnection
    \/ AvoidEndIteration
    \/ SecondCall

SpecPair == Init /\ [][NextPair]_vars

\* C8: two organize_canvas calls on equal copies of a canvas (same node
\* sizes, same orientation, same set of connections) end with the same (x, y)
\* for every node, whatever the order all_connections() lists the set in.
C8_SameResult ==
    (call = 2 /\ Finished) =>
        \A n \in DOMAIN nodes : nodes[n].x = first_nodes[n].x /\ nodes[n].y = first_nodes[n].y

\* both calls have finished and a node stands at a different y
C8_DifferentResult ==
    /\ call = 2
    /\ Finished
    /\ \E n \in DOMAIN nodes : nodes[n].y # first_nodes[n].y

\* --------------------------------------------------------------------------
\* Canvas.all_connections (models.py) and the specification of one call
\* --------------------------------------------------------------------------
MaxDeclared == 2

\* the ids of the nodes of the canvas whose connections are collected
DeclaringIds == {1, 2}

\* the lists a node's inputs or outputs can be
ReferenceLists == UNION { [1..k -> DeclaringIds] : k \in 0..MaxDeclared }

\* the pairs one node declares: (input_id, node.id) for each of its inputs,
\* then (node.id, output_id) for each of its outputs
DeclaredBy(node) ==
    [k \in DOMAIN node.inputs |-> <<node.inputs[k], node.id>>]
        \o [k \in DOMAIN node.outputs |-> <<node.id, node.outputs[k]>>]

\* the list `connections` before it is deduplicated
DeclaredConnections(node_list) ==
    Flatten([i \in DOMAIN node_list |-> DeclaredBy(node_list[i])])

\* (variant: the list is returned as collected)
NotDeduplicated(collected) == {collected}

\* list(set(connections)): the distinct pairs, in whatever order the set
\* iterates
Deduplicated(collected) == Orderings(Range(collected))

\* the lists Canvas.all_connections can return
all_connections(node_list) == Deduplicated(DeclaredConnections(node_list))

ConnectionsInit ==
    /\ ac_pc = "input"
    /\ \E decl \in [DeclaringIds -> [inputs : ReferenceLists, outputs : ReferenceLists]] :
          ac_nodes = [i \in 1..Cardinality(DeclaringIds) |->
                         [id |-> i, inputs |-> decl[i].inputs, outputs |-> decl[i].outputs]]
    /\ ac_result = <<>>
    /\ PlacerIdle
    /\ CanvasIdle
    /\ OtherUnitsIdle("connections")

\* canvas.all_connections()
AllConnections ==
    /\ ac_pc = "input"
    /\ ac_result' \in all_connections(ac_nodes)
    /\ ac_pc' = "returned"
    /\ UNCHANGED <<ac_nodes, placer_vars, canvas_vars>>
    /\ OtherUnitsUnchanged("connections")

ConnectionsNext == AllConnections

SpecConnections == ConnectionsInit /\ [][ConnectionsNext]_vars

\* C11: all_connections returns no ordered pair twice, and every connection
\* declared in some node's inputs or outputs appears in the result.
C11_NoDuplicateAllPresent ==
    ac_pc = "returned" =>
        /\ \A i, j \in DOMAIN ac_result : i # j => ac_result[i] # ac_result[j]
        /\ \A n \in DOMAIN ac_nodes :
              /\ \A k \in DOMAIN ac_nodes[n].inputs :
                    <<ac_nodes[n].inputs[k], ac_nodes[n].id>> \in Range(ac_result)
              /\ \A k \in DOMAIN ac_nodes[n].outputs :
                    <<ac_nodes[n].id, ac_nodes[n].outputs[k]>> \in Range(ac_result)

\* node 1 lists node 2 twice in its outputs and node 2 lists node 1 in its
\* inputs; the pair (1, 2) has been returned
C11_Witness ==
    /\ ac_pc = "returned"
    /\ ac_nodes[1].outputs = <<2, 2>>
    /\ 1 \in Range(ac_nodes[2].inputs)
    /\ <<1, 2>> \in Range(ac_result)
    /\ Len(ac_result) > 1

\* --------------------------------------------------------------------------
\* Specification of one call of _resolve_edges_for_containers
\* --------------------------------------------------------------------------
MaxResolved == 2

\* the nodes the connections run between and the ids a container can have
ResolveNodes == {1, 2, 3}

ResolveContainers == {EmptyId, 1, 2}

\* node_to_container: some of the nodes, each with the id of its container
ContainerMaps == UNION { [S -> ResolveContainers] : S \in SUBSET ResolveNodes }

ResolveInit ==
    /\ re_pc = "input"
    /\ re_connections \in UNION { [1..k -> ResolveNodes \X ResolveNodes] : k \in 0..MaxResolved }
    /\ re_map \in ContainerMaps
    /\ re_allowed \in SUBSET ResolveContainers
    /\ re_result = <<>>
    /\ PlacerIdle
    /\ CanvasIdle
    /\ OtherUnitsIdle("resolve")

\* _resolve_edges_for_containers(connections, node_to_container, container_ids)
ResolveCall ==
    /\ re_pc = "input"
    /\ re_result' = _resolve_edges_for_containers(re_connections, re_map, re_allowed)
    /\ re_pc' = "returned"
    /\ UNCHANGED <<re_connections, re_map, re_allowed, placer_vars, canvas_vars>>
    /\ OtherUnitsUnchanged("resolve")

ResolveNext == ResolveCall

SpecResolve == ResolveInit /\ [][ResolveNext]_vars

\* the pairs (container(u), container(v)) of the connections (u, v) between
\* two different allowed containers
CrossingPairs ==
    { <<re_map[c[1]], re_map[c[2]]>> :
        c \in { d \in Range(re_connections) :
                  /\ d[1] \in DOMAIN re_map
                  /\ d[2] \in DOMAIN re_map
                  /\ re_map[d[1]] # re_map[d[2]]
                  /\ re_map[d[1]] \in re_allowed
                  /\ re_map[d[2]] \in re_allowed } }

\* C12: _resolve_edges_for_containers returns exactly the pairs (c1, c2) for
\* which some connection (u, v) has container(u) = c1, container(v) = c2,
\* c1 # c2 and both in the allowed set, each pair once.
C12_ExactlyCrossingPairs ==
    re_pc = "returned" =>
        /\ { <<re_result[i].from_id, re_result[i].to_id>> : i \in DOMAIN re_result }
              = CrossingPairs
        /\ \A i, j \in DOMAIN re_result : i # j => re_result[i] # re_result[j]

\* a connection runs between two allowed containers, one of which has the
\* empty id, and no edge has been returned
C12_EmptyIdDropped ==
    /\ re_pc = "returned"
    /\ EmptyId \in re_allowed
    /\ \E p \in CrossingPairs : p[1] = EmptyId \/ p[2] = EmptyId
    /\ re_result = <<>>

\* --------------------------------------------------------------------------
\* The renderer's connector geometry: CanvasRenderer._determine_port,
\* _get_port_coordinates and the control points of _draw_bezier_connection.
\* The scale is kept as twice its value; a drawn coordinate is a numerator
\* over 20 (half units, fifths from the 0.4 factor, halves from the scale).
\* --------------------------------------------------------------------------
\* (variant: the side ports whatever the positions)
SidePortsOnly(source, target) ==
    IF (2 * target.x + target.width) - (2 * source.x + source.width) >= 0
    THEN <<"output", "input">> ELSE <<"input", "output">>

_determine_port(source, target) ==
    LET dx == (2 * target.x + target.width) - (2 * source.x + source.width)
        dy == (2 * target.y + target.height) - (2 * source.y + source.height)
    IN  IF Abs(dy) > 3 * source.height /\ Abs(dy) > Abs(dx)
        THEN IF dy > 0 THEN <<"bottom", "top">> ELSE <<"top", "bottom">>
        ELSE IF dx >= 0 THEN <<"output", "input">> ELSE <<"input", "output">>

_get_port_coordinates(node, port, ox, oy, scale) ==
    CASE port = "input" ->
            [x |-> 10 * (node.x + ox) * scale,
             y |-> 5 * (2 * node.y + node.height + 2 * oy) * scale]
      [] port = "top" ->
            [x |-> 5 * (2 * node.x + node.width + 2 * ox) * scale,
             y |-> 10 * (node.y + oy) * scale]
      [] port = "bottom" ->
            [x |-> 5 * (2 * node.x + node.width + 2 * ox) * scale,
             y |-> 10 * (node.y + node.height + oy) * scale]
      [] OTHER ->
            [x |-> 10 * (node.x + node.width + ox) * scale,
             y |-> 5 * (2 * node.y + node.height + 2 * oy) * scale]

\* the control points _draw_bezier_connection computes; 40 * scale is
\* 400 * (twice the scale) twentieths
RendererControlPoints(start, end, direction, scale) ==
    IF direction = "vertical"
    THEN LET cp_offset == Max2((2 * Abs(end.y - start.y)) \div 5, 400 * scale)
             off == IF end.y > start.y THEN cp_offset ELSE -cp_offset
         IN  [cp1 |-> [x |-> start.x, y |-> start.y + off],
              cp2 |-> [x |-> end.x, y |-> end.y - off]]
    ELSE LET cp_offset == Max2((2 * Abs(end.x - start.x)) \div 5, 400 * scale)
             off == IF end.x > start.x THEN cp_offset ELSE -cp_offset
         IN  [cp1 |-> [x |-> start.x + off, y |-> start.y],
              cp2 |-> [x |-> end.x - off, y |-> end.y]]

\* _draw_connections for one connection: ports, anchors, direction and
\* the control points handed to the curve
DrawnConnection(source, target, ox, oy, scale) ==
    LET ports == _determine_port(source, target)
        start == _get_port_coordinates(source, ports[1], ox, oy, scale)
        end == _get_port_coordinates(target, ports[2], ox, oy, scale)
        direction == IF ports[1] \in {"top", "bottom"} THEN "vertical" ELSE "horizontal"
        control == RendererControlPoints(start, end, direction, scale)
    IN  [from_port |-> ports[1], to_port |-> ports[2], start |-> start, end |-> end,
         cp1 |-> control.cp1, cp2 |-> control.cp2]

\* twice the scales rendered with: 1.0 (the default), 1.5 and 2.0
RenderScales == {2, 3, 4}

\* the offsets <<ox, oy>> of the canvas in the image
RenderOffsets == {<<0, 0>>, <<30, 10>>}

\* --------------------------------------------------------------------------
\* Specification of one call of _sample_bezier_path
\* --------------------------------------------------------------------------
\* the source node: centre on a whole or a half unit, two heights
SamplerSources ==
    { [x |-> 400, y |-> 400, width |-> w, height |-> h] : w \in {180, 181}, h \in {80, 81} }

\* the target node: left of, level with and right of the source; above, level
\* with and below it, at and beyond the horizon
SamplerTargets ==
    { [x |-> x, y |-> y, width |-> w, height |-> h] :
        x \in {100, 400, 401, 700}, y \in {100, 280, 400, 520, 700},
        w \in {180, 181}, h \in {80, 200} }

\* the values of `steps`: the smallest ones, the default and the avoider's
StepCounts == {1, 2, 20, BEZIER_STEPS}

SamplerInit ==
    /\ bz_pc = "input"
    /\ bz_src \in SamplerSources
    /\ bz_dst \in SamplerTargets
    /\ bz_steps = 0
    /\ bz_path = <<>>
    /\ bz_scale = 0
    /\ bz_offset = <<0, 0>>
    /\ bz_drawn = <<>>
    /\ PlacerIdle
    /\ CanvasIdle
    /\ OtherUnitsIdle("sampler")

\* _sample_bezier_path(src, dst, steps)
SampleCall ==
    /\ bz_pc = "input"
    /\ \E steps \in StepCounts :
          /\ bz_steps' = steps
          /\ bz_path' = _sample_bezier_path(bz_src, bz_dst, steps)
    /\ bz_pc' = "sampled"
    /\ UNCHANGED <<bz_src, bz_dst, bz_scale, bz_offset, bz_drawn, placer_vars, canvas_vars>>
    /\ OtherUnitsUnchanged("sampler")

\* the call the avoider makes for a connection: path = _sample_bezier_path(src, dst, steps=24)
AvoiderSampleCall ==
    /\ bz_pc = "input"
    /\ bz_steps' = BEZIER_STEPS
    /\ bz_path' = _sample_bezier_path(bz_src, bz_dst, BEZIER_STEPS)
    /\ bz_pc' = "avoider_sampled"
    /\ UNCHANGED <<bz_src, bz_dst, bz_scale, bz_offset, bz_drawn, placer_vars, canvas_vars>>
    /\ OtherUnitsUnchanged("sampler")

\* the renderer draws the same connection: the body of the loop of
\* CanvasRenderer._draw_connections, up to the control points
DrawConnection ==
    /\ bz_pc \in {"sampled", "avoider_sampled"}
    /\ \E scale \in RenderScales, offset \in RenderOffsets :
          /\ bz_scale' = scale
          /\ bz_offset' = offset
          /\ bz_drawn' = DrawnConnection(bz_src, bz_dst, offset[1], offset[2], scale)
    /\ bz_pc' = "drawn"
    /\ UNCHANGED <<bz_src, bz_dst, bz_steps, bz_path, placer_vars, canvas_vars>>
    /\ OtherUnitsUnchanged("sampler")

SamplerNext == SampleCall \/ AvoiderSampleCall \/ DrawConnection

SpecSampler == SamplerInit /\ [][SamplerNext]_vars

SamplerReturned == bz_pc \in {"sampled", "avoider_sampled"}

\* the midpoint of one side of a node, in tenths
SideMidpoint(node, side) ==
    CASE side = "top"    -> [x |-> 5 * (2 * node.x + node.width), y |-> 10 * node.y]
      [] side = "bottom" -> [x |-> 5 * (2 * node.x + node.width),
                             y |-> 10 * (node.y + node.height)]
      [] side = "left"   -> [x |-> 10 * node.x, y |-> 5 * (2 * node.y + node.height)]
      [] side = "right"  -> [x |-> 10 * (node.x + node.width),
                             y |-> 5 * (2 * node.y + node.height)]

\* the sides the claim names for the pair, from the differences of the
\* centres (taken twice, to stay in the integers)
ClaimedSides(src, dst) ==
    LET dx == (2 * dst.x + dst.width) - (2 * src.x + src.width)
        dy == (2 * dst.y + dst.height) - (2 * src.y + src.height)
    IN  IF Abs(dy) > 3 * src.height /\ Abs(dy) > Abs(dx)
        THEN IF dy > 0 THEN <<"bottom", "top">> ELSE <<"top", "bottom">>
        ELSE IF dx >= 0 THEN <<"right", "left">> ELSE <<"left", "right">>

\* a point in tenths as the sampler returns it for `steps` steps
AsSampled(pt, steps) ==
    [x |-> pt.x * steps * steps * steps, y |-> pt.y * steps * steps * steps]

\* C17: _sample_bezier_path(source, target, n) returns n+1 points, the first
\* the source port anchor and the last the target port anchor: bottom/top
\* midpoints (top/bottom when the target is above) when |dy| > 1.5 *
\* source.height and |dy| > |dx|, right/left midpoints (left/right when
\* dx < 0) otherwise; the avoider samples with n = 24.
C17_PathEndsAtPortAnchors ==
    SamplerReturned =>
        LET sides == ClaimedSides(bz_src, bz_dst)
        IN  /\ Len(bz_path) = bz_steps + 1
            /\ bz_path[1] = AsSampled(SideMidpoint(bz_src, sides[1]), bz_steps)
            /\ bz_path[Len(bz_path)] = AsSampled(SideMidpoint(bz_dst, sides[2]), bz_steps)
            /\ bz_pc = "avoider_sampled" => Len(bz_path) = 25

\* the avoider has sampled a connector to a target below the horizon and
\* further down than across, which leaves the source at its bottom midpoint
C17_Witness ==
    /\ bz_pc = "avoider_sampled"
    /\ ClaimedSides(bz_src, bz_dst) = <<"bottom", "top">>
    /\ bz_dst.x # bz_src.x
    /\ Len(bz_path) = 25
    /\ bz_path[25].y = 10 * bz_dst.y * BEZIER_STEPS * BEZIER_STEPS * BEZIER_STEPS

\* the side of a node a renderer port lies on
PortSide(port) ==
    CASE port = "input" -> "left"
      [] port = "output" -> "right"
      [] OTHER -> port

\* a point of the sampler (in tenths) as the renderer draws it: moved by
\* the offset and multiplied by the scale
AsDrawn(x, y) ==
    [x |-> bz_scale * (x + 10 * bz_offset[1]), y |-> bz_scale * (y + 10 * bz_offset[2])]

\* the cubic through the renderer's anchors and control points at the
\* sampler's k-th parameter value, times steps^3
DrawnCurveAt(k) ==
    LET i == k - 1
        u == bz_steps - i
        w0 == u * u * u
        w1 == 3 * u * u * i
        w2 == 3 * u * i * i
        w3 == i * i * i
    IN  [x |-> w0 * bz_drawn.start.x + w1 * bz_drawn.cp1.x + w2 * bz_drawn.cp2.x
                  + w3 * bz_drawn.end.x,
         y |-> w0 * bz_drawn.start.y + w1 * bz_drawn.cp1.y + w2 * bz_drawn.cp2.y
                  + w3 * bz_drawn.end.y]

\* C29: the sampler and the renderer agree on a connector: the ports
\* _determine_port returns are the sides _sample_bezier_path starts and ends
\* the path at; the renderer's anchors and control points are the sampler's,
\* moved by the offset and multiplied by the scale (equal to them at offset
\* 0 and scale 1); so the sampled points lie on the curve the renderer draws.
C29_SamplerMatchesRenderer ==
    bz_pc = "drawn" =>
        LET c == BezierControl(bz_src, bz_dst)
            cube == bz_steps * bz_steps * bz_steps
        IN  /\ <<PortSide(bz_drawn.from_port), PortSide(bz_drawn.to_port)>>
                  = ClaimedSides(bz_src, bz_dst)
            /\ bz_path[1]
                  = AsSampled(SideMidpoint(bz_src, PortSide(bz_drawn.from_port)), bz_steps)
            /\ bz_path[Len(bz_path)]
                  = AsSampled(SideMidpoint(bz_dst, PortSide(bz_drawn.to_port)), bz_steps)
            /\ c.vertical <=> bz_drawn.from_port \in {"top", "bottom"}
            /\ bz_drawn.start = AsDrawn(c.sx, c.sy)
            /\ bz_drawn.end = AsDrawn(c.ex, c.ey)
            /\ bz_drawn.cp1 = AsDrawn(c.cp1x, c.cp1y)
            /\ bz_drawn.cp2 = AsDrawn(c.cp2x, c.cp2y)
            /\ \A k \in DOMAIN bz_path :
                  DrawnCurveAt(k) = [x |-> bz_scale * (bz_path[k].x + 10 * cube * bz_offset[1]),
                                     y |-> bz_scale * (bz_path[k].y + 10 * cube * bz_offset[2])]

\* a connector from the top of the source to the bottom of a target far
\* above it, sampled by the avoider and drawn at scale 2 and offset 0: the
\* control offset is 0.4 * |dy|, more than 40 * scale
C29_Witness ==
    /\ bz_pc = "drawn"
    /\ bz_steps = BEZIER_STEPS
    /\ bz_scale = 4
    /\ bz_offset = <<0, 0>>
    /\ bz_drawn.from_port = "top" /\ bz_drawn.to_port = "bottom"
    /\ bz_drawn.start.x # bz_drawn.end.x
    /\ bz_drawn.start.y - bz_drawn.cp1.y > 400 * bz_scale
    /\ bz_drawn.cp1.y = 4 * BezierControl(bz_src, bz_dst).cp1y

\* --------------------------------------------------------------------------
\* The sizer: CanvasRenderer.compute_node_size and auto_size_nodes.
\* What the font-metric oracle measures is kept as twice its value, so that
\* half units are exact: a node carries `label` = [w, h] (the label's bbox),
\* `type_w` (the type text's bbox width) and `content`.
\* --------------------------------------------------------------------------
NODE_PADDING == 24
MIN_NODE_WIDTH == 180
MIN_NODE_HEIGHT == 80
MAX_NODE_WIDTH == 600
NODE_TOP_BAR == 6
NODE_LABEL_GAP == 12
NODE_CONTENT_GAP == 10
NODE_BOTTOM_PAD == 36
NODE_LINE_HEIGHT == 24

\* _wrap_text(text, font, max_width): the widths (taken twice) of the lines
\* the text is wrapped into; a text wraps into its `wide` lines when
\* max_width is at least its `fits_at` and into its `narrow` lines otherwise,
\* never into no line at all
_wrap_text(text, max_width) ==
    LET lines == IF max_width >= text.fits_at THEN text.wide ELSE text.narrow
    IN  IF lines = <<>> THEN <<0>> ELSE lines

RECURSIVE SeqMax(_, _)
SeqMax(s, least) ==
    IF s = <<>> THEN least ELSE SeqMax(Tail(s), Max2(Head(s), least))

\* (variant: the width is left as the texts make it)
Unclamped(width) == width

\* width = max(width, MIN_NODE_WIDTH); width = min(width, MAX_NODE_WIDTH), twice
ClampedWidth(width) ==
    LET at_least == Max2(width, 2 * MIN_NODE_WIDTH)
    IN  IF at_least <= 2 * MAX_NODE_WIDTH THEN at_least ELSE 2 * MAX_NODE_WIDTH

\* (variant: the body text is wrapped again at the width the node has)
CurrentTextWidth(node, width) == 2 * node.width - 4 * NODE_PADDING

\* actual_text_width = width - 2 * padding, twice
ActualTextWidth(node, width) == width - 4 * NODE_PADDING

\* compute_node_size(node): (width, height)
compute_node_size(node) ==
    LET label_width == node.label.w
        type_badge_w == node.type_w + 2 * (12 + 10)
        content_width ==
            IF node.content.present
            THEN SeqMax(_wrap_text(node.content, MAX_NODE_WIDTH - 2 * NODE_PADDING), 0)
            ELSE 0
        inner_width == Max2(Max2(label_width, content_width), type_badge_w)
        width == ClampedWidth(inner_width + 4 * NODE_PADDING)
        label_bbox_h == node.label.h
        content_lines ==
            IF node.content.present
            THEN _wrap_text(node.content, FloorDiv(ActualTextWidth(node, width), 2))
            ELSE <<>>
        height == 2 * (NODE_TOP_BAR + NODE_LABEL_GAP) + label_bbox_h + 2 * NODE_CONTENT_GAP
                    + 2 * Len(content_lines) * NODE_LINE_HEIGHT
                    + 2 * NODE_BOTTOM_PAD
    IN  <<Round(width, 2), Round(Max2(height, 2 * MIN_NODE_HEIGHT), 2)>>

\* auto_size_nodes(canvas): every node of canvas.all_nodes() gets the size
\* computed for it
auto_size_nodes(node_list) ==
    [i \in DOMAIN node_list |->
        LET size == compute_node_size(node_list[i])
        IN  [node_list[i] EXCEPT !.width = size[1], !.height = size[2]]]

\* --------------------------------------------------------------------------
\* Specification of two calls of auto_size_nodes in a row
\* --------------------------------------------------------------------------
MaxSized == 2

\* bboxes of labels (twice): an empty one, one that gives a width and a
\* height on half units, one wider than the widest node
LabelAnswers == { [w |-> 0, h |-> 0], [w |-> 267, h |-> 33], [w |-> 1300, h |-> 34] }

\* bbox widths of type texts (twice)
TypeAnswers == {80, 1200}

NoContent == [present |-> FALSE, fits_at |-> 0, wide |-> <<>>, narrow |-> <<>>]

\* body texts: none, one of white space only, one that takes one line at
\* the widest wrap and two at the width the node ends up with
ContentAnswers ==
    { NoContent,
      [present |-> TRUE, fits_at |-> 0, wide |-> <<>>, narrow |-> <<>>],
      [present |-> TRUE, fits_at |-> 250, wide |-> <<400>>, narrow |-> <<300, 180>>] }

\* position and size before the call: the parser's defaults, no size, a
\* preset from the document
PriorGeometries ==
    { [x |-> 0, y |-> 0, width |-> 250, height |-> 120],
      [x |-> 50, y |-> 70, width |-> 0, height |-> 0],
      [x |-> 0, y |-> 0, width |-> 1000, height |-> 10] }

SizerNodes ==
    { [x |-> g.x, y |-> g.y, width |-> g.width, height |-> g.height,
       label |-> l, type_w |-> t, content |-> c] :
        g \in PriorGeometries, l \in LabelAnswers, t \in TypeAnswers, c \in ContentAnswers }

SizesOf(node_list) ==
    [i \in DOMAIN node_list |-> <<node_list[i].width, node_list[i].height>>]

SizerInit ==
    /\ sz_pc = "input"
    /\ sz_nodes \in UNION { [1..k -> SizerNodes] : k \in 1..MaxSized }
    /\ sz_metrics = [i \in DOMAIN sz_nodes |->
                        [label |-> sz_nodes[i].label, type_w |-> sz_nodes[i].type_w,
                         content |-> sz_nodes[i].content]]
    /\ sz_given = SizesOf(sz_nodes)
    /\ sz_first = <<>>
    /\ PlacerIdle
    /\ CanvasIdle
    /\ OtherUnitsIdle("sizer")

\* renderer.auto_size_nodes(canvas), the first and the second time
AutoSizeNodes ==
    /\ sz_pc \in {"input", "sized"}
    /\ sz_nodes' = auto_size_nodes(sz_nodes)
    /\ sz_first' = IF sz_pc = "input" THEN SizesOf(sz_nodes') ELSE sz_first
    /\ sz_pc' = IF sz_pc = "input" THEN "sized" ELSE "resized"
    /\ UNCHANGED <<sz_metrics, sz_given, placer_vars, canvas_vars>>
    /\ OtherUnitsUnchanged("sizer")

SizerNext == AutoSizeNodes

SpecSizer == SizerInit /\ [][SizerNext]_vars

SizerRan == sz_pc \in {"sized", "resized"}

\* C18: after auto_size_nodes every node has 180 <= width <= 600 and
\* height >= 80, whatever its texts measure and whatever width and height
\* it had before.
C18_SizeWithinLimits ==
    SizerRan =>
        \A i \in DOMAIN sz_nodes :
            /\ 180 <= sz_nodes[i].width
            /\ sz_nodes[i].width <= 600
            /\ sz_nodes[i].height >= 80

\* sized once: a node that came with a preset of 1000 x 10 and a label wider
\* than the widest node is 600 wide, and a node that came with no size and
\* empty texts is 180 x 80
C18_Witness ==
    /\ sz_pc = "sized"
    /\ \E i \in DOMAIN sz_nodes :
          /\ sz_given[i] = <<1000, 10>>
          /\ sz_metrics[i].label.w > 2 * 600
          /\ sz_nodes[i].width = 600
          /\ sz_nodes[i].height > 80
    /\ \E i \in DOMAIN sz_nodes :
          /\ sz_given[i] = <<0, 0>>
          /\ sz_metrics[i].label.w = 0
          /\ sz_nodes[i].width = 180
          /\ sz_nodes[i].height = 80

\* C19: a second auto_size_nodes with the same oracle leaves every node
\* with the (width, height) of the first; and the size a node gets does not
\* depend on the width, height or position it had: nodes whose texts
\* measure the same get the same size.
C19_SizerIdempotent ==
    /\ sz_pc = "resized" => SizesOf(sz_nodes) = sz_first
    /\ SizerRan =>
          \A i, j \in DOMAIN sz_nodes :
              sz_metrics[i] = sz_metrics[j] =>
                  /\ sz_nodes[i].width = sz_nodes[j].width
                  /\ sz_nodes[i].height = sz_nodes[j].height

\* sized twice: two nodes with the same texts, a body text among them, that
\* came with different sizes and positions, now two lines of body text high
C19_Witness ==
    /\ sz_pc = "resized"
    /\ Len(sz_nodes) = 2
    /\ sz_metrics[1] = sz_metrics[2]
    /\ sz_metrics[1].content.present
    /\ sz_nodes[1].x # sz_nodes[2].x
    /\ sz_given[1] # sz_given[2]
    /\ sz_first[1] = sz_first[2]
    /\ sz_first[1][2] >= 80 + 2 * NODE_LINE_HEIGHT

\* --------------------------------------------------------------------------
\* Specification of one call of _node_intersects_path with the default margin
\* --------------------------------------------------------------------------
MaxPoints == 2

HitNode == [x |-> 100, y |-> 100, width |-> 180, height |-> 80]

\* coordinates around the left and right edges of HitNode, 8 inside and 8
\* outside them, and a sample step beyond
HitXs == { 92 * K - 1, 92 * K, 100 * K, 108 * K - 1, 108 * K, 190 * K, 288 * K, 288 * K + 1 }

\* the same around its top and bottom edges
HitYs == { 92 * K - 1, 92 * K, 100 * K, 108 * K, 140 * K, 172 * K, 188 * K, 188 * K + 1 }

HitPaths == UNION { [1..k -> [x : HitXs, y : HitYs]] : k \in 1..MaxPoints }

HitInit ==
    /\ ht_pc = "input"
    /\ ht_node = HitNode
    /\ ht_path \in HitPaths
    /\ ht_result = FALSE
    /\ PlacerIdle
    /\ CanvasIdle
    /\ OtherUnitsIdle("hit")

\* _node_intersects_path(node, path)
HitTest ==
    /\ ht_pc = "input"
    /\ ht_result' = _node_intersects_path(ht_node, ht_path, NODE_BBOX_MARGIN)
    /\ ht_pc' = "returned"
    /\ UNCHANGED <<ht_node, ht_path, placer_vars, canvas_vars>>
    /\ OtherUnitsUnchanged("hit")

HitNext == HitTest

SpecHitTest == HitInit /\ [][HitNext]_vars

\* the point lies in the node's rectangle contracted by 8 on each side
InContracted(pt, node) ==
    /\ (node.x + 8) * K <= pt.x
    /\ pt.x <= (node.x + node.width - 8) * K
    /\ (node.y + 8) * K <= pt.y
    /\ pt.y <= (node.y + node.height - 8) * K

\* the point lies on the node's border or outside the node
OnEdgeOrOutside(pt, node) ==
    \/ pt.x <= node.x * K
    \/ pt.x >= (node.x + node.width) * K
    \/ pt.y <= node.y * K
    \/ pt.y >= (node.y + node.height) * K

\* C21: the hit test with the default margin is true exactly when some
\* sampled point lies in the node's rectangle contracted by 8 on each side.
C21_HitIffInContractedBox ==
    ht_pc = "returned" =>
        (ht_result <=> \E k \in DOMAIN ht_path : InContracted(ht_path[k], ht_node))

\* every sampled point lies on the node's border or outside the node, and
\* the hit test has returned true
C21_HitOutsideNode ==
    /\ ht_pc = "returned"
    /\ \A k \in DOMAIN ht_path : OnEdgeOrOutside(ht_path[k], ht_node)
    /\ ht_result

\* --------------------------------------------------------------------------
\* The renderer's containers: CanvasRenderer._get_container_bounds,
\* _draw_machine_container and _draw_factory_container.  The scale is kept
\* as twice its value, a drawn coordinate as twice its value in pixels.
\* --------------------------------------------------------------------------
CONTAINER_PADDING == 45
CONTAINER_LABEL_HEIGHT == 40
FACTORY_EXPAND == 20

\* the rectangle (0, 0, 0, 0)
NoRectangle == [x1 |-> 0, y1 |-> 0, x2 |-> 0, y2 |-> 0]

_get_container_bounds(node_list) ==
    IF node_list = <<>> THEN NoRectangle
    ELSE LET S == Range(node_list)
         IN  [x1 |-> SetMin({n.x : n \in S}) - CONTAINER_PADDING,
              y1 |-> SetMin({n.y : n \in S}) - CONTAINER_PADDING - CONTAINER_LABEL_HEIGHT,
              x2 |-> SetMax({n.x + n.width : n \in S}) + CONTAINER_PADDING,
              y2 |-> SetMax({n.y + n.height : n \in S}) + CONTAINER_PADDING]

\* the rectangle _draw_machine_container hands to _draw_rounded_rect
MachineRectangle(node_list, ox, oy, scale) ==
    LET b == _get_container_bounds(node_list)
    IN  [x1 |-> (b.x1 + ox) * scale, y1 |-> (b.y1 + oy) * scale,
         x2 |-> (b.x2 + ox) * scale, y2 |-> (b.y2 + oy) * scale]

\* the rectangle _draw_factory_container hands to _draw_rounded_rect; the
\* label height taken off y1 is in pixels, whatever the scale
FactoryRectangle(node_list, ox, oy, scale) ==
    LET b == _get_container_bounds(node_list)
    IN  [x1 |-> (b.x1 - FACTORY_EXPAND + ox) * scale,
         y1 |-> (b.y1 - FACTORY_EXPAND + oy) * scale - 2 * CONTAINER_LABEL_HEIGHT,
         x2 |-> (b.x2 + FACTORY_EXPAND + ox) * scale,
         y2 |-> (b.y2 + FACTORY_EXPAND + oy) * scale]

\* the containers of one factory as render() draws them: nothing for a
\* container without nodes
DrawnContainers(factory, ox, oy, scale) ==
    [factory |-> IF Flatten(factory) = <<>> THEN <<>>
                 ELSE <<FactoryRectangle(Flatten(factory), ox, oy, scale)>>,
     machines |-> [m \in DOMAIN factory |->
                      IF factory[m] = <<>> THEN <<>>
                      ELSE <<MachineRectangle(factory[m], ox, oy, scale)>>]]

\* --------------------------------------------------------------------------
\* Specification of the renderer drawing the containers of one factory
\* --------------------------------------------------------------------------
MaxDrawn == 2

\* the nodes a machine may hold, as the layout may have left them
DrawnNodes ==
    { [x |-> 80, y |-> 100, width |-> 180, height |-> 80],
      [x |-> 350, y |-> 100, width |-> 180, height |-> 200],
      [x |-> 80, y |-> 320, width |-> 181, height |-> 80],
      [x |-> 350, y |-> 380, width |-> 180, height |-> 80] }

DrawnMachines == UNION { [1..k -> DrawnNodes] : k \in 0..MaxDrawn }

ContainersInit ==
    /\ ct_pc = "input"
    /\ \E first \in DrawnMachines, second \in DrawnMachines : ct_factory = <<first, second>>
    /\ ct_scale \in RenderScales
    /\ ct_offset \in RenderOffsets
    /\ ct_drawn = <<>>
    /\ PlacerIdle
    /\ CanvasIdle
    /\ OtherUnitsIdle("containers")

\* render(), the loop that draws a factory's container and its machines'
DrawContainers ==
    /\ ct_pc = "input"
    /\ ct_drawn' = DrawnContainers(ct_factory, ct_offset[1], ct_offset[2], ct_scale)
    /\ ct_pc' = "drawn"
    /\ UNCHANGED <<ct_factory, ct_scale, ct_offset, placer_vars, canvas_vars>>
    /\ OtherUnitsUnchanged("containers")

ContainersNext == DrawContainers

SpecContainers == ContainersInit /\ [][ContainersNext]_vars

\* how far a drawn rectangle reaches beyond the bounding box of the nodes,
\* on each side, in half pixels
ReachBeyond(rect, node_list) ==
    LET S == Range(node_list)
    IN  [left |-> (SetMin({n.x : n \in S}) + ct_offset[1]) * ct_scale - rect.x1,
         top |-> (SetMin({n.y : n \in S}) + ct_offset[2]) * ct_scale - rect.y1,
         right |-> rect.x2 - (SetMax({n.x + n.width : n \in S}) + ct_offset[1]) * ct_scale,
         bottom |-> rect.y2 - (SetMax({n.y + n.height : n \in S}) + ct_offset[2]) * ct_scale]

\* the reach is at most pad canvas units on the left, right and bottom, and
\* at most pad + 40 on top
WithinPadding(reach, pad) ==
    /\ reach.left <= pad * ct_scale
    /\ reach.right <= pad * ct_scale
    /\ reach.bottom <= pad * ct_scale
    /\ reach.top <= (pad + LABEL_HEADER) * ct_scale

MachinesWithinPadding ==
    \A m \in DOMAIN ct_factory :
        ct_factory[m] # <<>> =>
            /\ ct_drawn.machines[m] # <<>>
            /\ WithinPadding(ReachBeyond(ct_drawn.machines[m][1], ct_factory[m]),
                             MACHINE_PADDING)

\* C30: the rectangle drawn for a non-empty machine reaches beyond the
\* bounding box of its nodes by at most 55 on the left, right and bottom and
\* at most 55 + 40 on top; the one drawn for a non-empty factory by at most
\* 75 and at most 75 + 40; in canvas units, at every render scale.
C30_ChromeWithinPadding ==
    ct_pc = "drawn" =>
        /\ MachinesWithinPadding
        /\ Flatten(ct_factory) # <<>> =>
              /\ ct_drawn.factory # <<>>
              /\ WithinPadding(ReachBeyond(ct_drawn.factory[1], Flatten(ct_factory)),
                               FACTORY_PADDING)

\* at scale 2.0 the rectangle of a factory of two machines reaches 125
\* canvas units above its nodes, more than 75 + 40, while its other sides
\* and its machines' rectangles are within the padding
C30_FactoryAboveHeader ==
    /\ ct_pc = "drawn"
    /\ ct_scale = 4
    /\ ct_factory[1] # <<>> /\ ct_factory[2] # <<>>
    /\ MachinesWithinPadding
    /\ LET reach == ReachBeyond(ct_drawn.factory[1], Flatten(ct_factory))
       IN  /\ reach.top = 125 * ct_scale
           /\ reach.left = 65 * ct_scale
           /\ reach.right = 65 * ct_scale
           /\ reach.bottom = 65 * ct_scale

=============================================================================
